---------------------------- MODULE Spec2Model ----------------------------
(***************************************************************************)
(* A model of the UDLG / NRBF record codec of udlg_tools.py.               *)
(*                                                                         *)
(* Representation:                                                         *)
(*   - a stream is a sequence of bytes (0..255) with a read position;      *)
(*   - a Python dict is a TLA+ record with the same keys; "k in d" is      *)
(*     k \in DOMAIN d;                                                     *)
(*   - a Python str is the sequence of its UTF-8 bytes (decode and encode  *)
(*     are inverse on valid UTF-8, decode rejects everything else);        *)
(*   - an integer that fits 32 signed bits is a TLA+ integer; a wider one  *)
(*     (7-bit encoded lengths, UInt32, the 64-bit kinds) is kept as a pair *)
(*     [hi, lo] with value hi * 65536 + lo, or as its little-endian bytes; *)
(*   - a primitive member value v stored directly in a Values list is      *)
(*     [prim |-> v], so that every element of a Values list is a record;   *)
(*   - a raised Python exception is the err field of the serializer state; *)
(*     every operation propagates it unchanged.                            *)
(***************************************************************************)
EXTENDS Integers, Sequences, FiniteSets, TLC

VARIABLES
    pc,          \* position in the command being run
    input,       \* bytes of the file given to the decode command
    walk,        \* "file": input_path.is_file(); "dir": found by a directory walk
    ser,         \* the NetSerializer: stream, pos, records, references, objects, err
    header,      \* UDLG.header
    compressed,  \* compressed_flag of UDLG.parse
    records,     \* UDLG.records
    err,         \* the exception that ended the command, "none" otherwise
    flag,        \* the "Compressed" entry of the data given to UDLG.encode
    output,      \* bytes written by UDLG.encode
    again,       \* result of decoding the file written by encode
    v7,          \* 7-bit codec under test: [value, bytes, result, used, err]
    edit,        \* the change made to the decoded data before it is encoded
    disk,        \* the output files of process_file: [prior, json, udlg]
    csv,         \* the CSV functions under test: their arguments and results
    nl,          \* a text through the newline escaping: [text, escaped, back]
    dt,          \* a DateTime through the codec: [bytes, value, written, err]
    tr           \* extract_translation_dialogs: [csv, txt, err, was, edited]

vars == <<pc, input, walk, ser, header, compressed, records, err, flag, output,
          again, v7, edit, disk, csv, nl, dt, tr>>

---------------------------------------------------------------------------
(* Bytes and wide integers                                                 *)

Byte == 0..255

Nil == [nil |-> TRUE]

IsNil(x) == DOMAIN x = {"nil"}

RECURSIVE Pow2(_)
Pow2(k) == IF k = 0 THEN 1 ELSE 2 * Pow2(k - 1)

\* value hi * 65536 + lo, 0 <= lo < 65536
Wide(hi, lo) == [hi |-> hi, lo |-> lo]

WZero == Wide(0, 0)

WIsZero(w) == w.hi = 0 /\ w.lo = 0

\* w >> 7
WShr7(w) == Wide(w.hi \div 128, (w.lo \div 128) + (w.hi % 128) * 512)

\* w | (g << shift), for a 7-bit group g whose bits are clear in w
WOrShl(w, g, shift) ==
    IF shift < 16
    THEN LET x == g * Pow2(shift)
         IN  Wide(w.hi + (x \div 65536), w.lo + (x % 65536))
    ELSE Wide(w.hi + g * Pow2(shift - 16), w.lo)

---------------------------------------------------------------------------
(* NetSerializer: the stream.  A reader takes the serializer state S and   *)
(* gives [s, v]: the state after the read and the value read.              *)

\* K applied to the value of e, with e evaluated once
Bind(e, K(_)) == CHOOSE y \in {K(x) : x \in {e}} : TRUE

NewSerializer(stream) ==
    [stream |-> stream, pos |-> 0, records |-> <<>>, references |-> <<>>,
     objects |-> <<>>, err |-> "none"]

Ret(S, v) == [s |-> S, v |-> v]

Raise(S, e) == [s |-> [S EXCEPT !.err = e], v |-> Nil]

Failed(S) == S.err # "none"

\* a read without the length check: the short data fails in struct.unpack
\* (sensitivity of C28)
readUnchecked(S, size) ==
    IF Failed(S) THEN Ret(S, Nil)
    ELSE IF S.pos + size > Len(S.stream)
         THEN Raise(S, "struct.error")
         ELSE Ret([S EXCEPT !.pos = @ + size],
                  SubSeq(S.stream, S.pos + 1, S.pos + size))

\* NetSerializer.read
read(S, size) ==
    IF Failed(S) THEN Ret(S, Nil)
    ELSE IF S.pos + size > Len(S.stream)
         THEN Raise(S, "EOFError")
         ELSE Ret([S EXCEPT !.pos = @ + size],
                  SubSeq(S.stream, S.pos + 1, S.pos + size))

\* read_write_primitive(PrimitiveType.Byte), mode "read"
ReadByte(S) ==
    Bind(read(S, 1), LAMBDA r : IF Failed(r.s) THEN r ELSE Ret(r.s, r.v[1]))

---------------------------------------------------------------------------
(* 7-bit encoded integers                                                  *)

\* a limit that leaves room for four bytes only (sensitivity of C4)
ShiftLimitFourBytes == 7 * 4

\* the shift at which the reader gives up
ShiftLimit == 35

RECURSIVE Read7BitLoop(_, _, _)
Read7BitLoop(S, result, shift) ==
    Bind(ReadByte(S), LAMBDA r :
        IF Failed(r.s) THEN r
        ELSE IF r.v \div 128 = 0 THEN Ret(r.s, WOrShl(result, r.v % 128, shift))
        ELSE IF shift + 7 >= ShiftLimit
        THEN Raise(r.s, "ValueError: Invalid 7-bit encoded int")
        ELSE Read7BitLoop(r.s, WOrShl(result, r.v % 128, shift), shift + 7))

\* read_write_7bit_encoded_int, mode "read"
Read7BitEncodedInt(S) == Read7BitLoop(S, WZero, 0)

\* a writer that sets the continuation bit from the value before the shift
\* (sensitivity of C5)
RECURSIVE Write7BitLoopFlagFirst(_)
Write7BitLoopFlagFirst(value) ==
    IF WIsZero(value) THEN <<>>
    ELSE <<(value.lo % 128) + 128>> \o Write7BitLoopFlagFirst(WShr7(value))

\* the loop "while value > 0" of read_write_7bit_encoded_int, mode "write"
RECURSIVE Write7BitLoop(_)
Write7BitLoop(value) ==
    IF WIsZero(value) THEN <<>>
    ELSE <<(value.lo % 128) + (IF WIsZero(WShr7(value)) THEN 0 ELSE 128)>>
         \o Write7BitLoop(WShr7(value))

\* read_write_7bit_encoded_int, mode "write": the bytes written
Write7BitEncodedInt(value) ==
    IF WIsZero(value) THEN <<0>> ELSE Write7BitLoop(value)

---------------------------------------------------------------------------
(* Enumerations: value -> name, as stored by the decoder (enum.name)       *)

PrimitiveType ==
    [b \in {1, 2, 3, 5, 6, 7, 8, 9, 10, 11, 12, 13, 14, 15, 16, 17, 18} |->
        CASE b = 1 -> "Boolean" [] b = 2 -> "Byte" [] b = 3 -> "Char"
          [] b = 5 -> "Decimal" [] b = 6 -> "Double" [] b = 7 -> "Int16"
          [] b = 8 -> "Int32" [] b = 9 -> "Int64" [] b = 10 -> "SByte"
          [] b = 11 -> "Single" [] b = 12 -> "TimeSpan" [] b = 13 -> "DateTime"
          [] b = 14 -> "UInt16" [] b = 15 -> "UInt32" [] b = 16 -> "UInt64"
          [] b = 17 -> "Null" [] b = 18 -> "String"]

BinaryType ==
    [b \in 0..7 |->
        CASE b = 0 -> "Primitive" [] b = 1 -> "String" [] b = 2 -> "Object"
          [] b = 3 -> "SystemClass" [] b = 4 -> "Class" [] b = 5 -> "ObjectArray"
          [] b = 6 -> "StringArray" [] b = 7 -> "PrimitiveArray"]

BinaryArrayType ==
    [b \in 0..5 |->
        CASE b = 0 -> "Single" [] b = 1 -> "Jagged" [] b = 2 -> "Rectangular"
          [] b = 3 -> "SingleOffset" [] b = 4 -> "JaggedOffset"
          [] b = 5 -> "RectangularOffset"]

RecordType ==
    [b \in (0..17) \cup {21, 22} |->
        CASE b = 0 -> "SerializedStreamHeader" [] b = 1 -> "ClassWithId"
          [] b = 2 -> "SystemClassWithMembers" [] b = 3 -> "ClassWithMembers"
          [] b = 4 -> "SystemClassWithMembersAndTypes"
          [] b = 5 -> "ClassWithMembersAndTypes" [] b = 6 -> "BinaryObjectString"
          [] b = 7 -> "BinaryArray" [] b = 8 -> "MemberPrimitiveTyped"
          [] b = 9 -> "MemberReference" [] b = 10 -> "ObjectNull"
          [] b = 11 -> "MessageEnd" [] b = 12 -> "BinaryLibrary"
          [] b = 13 -> "ObjectNullMultiple256" [] b = 14 -> "ObjectNullMultiple"
          [] b = 15 -> "ArraySinglePrimitive" [] b = 16 -> "ArraySingleObject"
          [] b = 17 -> "ArraySingleString" [] b = 21 -> "MethodCall"
          [] b = 22 -> "MethodReturn"]

\* Enum[name].value
EnumValue(enum, name) == CHOOSE b \in DOMAIN enum : enum[b] = name

\* the record kinds process_record has a handler for
Handled == {RecordType[b] : b \in 0..17}

---------------------------------------------------------------------------
(* Primitives                                                              *)

\* the reader K continues after the read e unless e raised
Then(e, K(_)) ==
    Bind(e, LAMBDA r : IF Failed(r.s) THEN Ret(r.s, Nil) ELSE K(r))

\* struct.calcsize of the type_map entry
TypeMapSize(t) ==
    CASE t \in {"Boolean", "Byte", "SByte"} -> 1
      [] t \in {"Int16", "UInt16"} -> 2
      [] t \in {"Int32", "UInt32", "Single"} -> 4
      [] t \in {"Int64", "UInt64", "Double"} -> 8

InTypeMap(t) ==
    t \in {"Boolean", "Byte", "SByte", "Int16", "UInt16", "Int32", "UInt32",
           "Int64", "UInt64", "Single", "Double"}

Signed(b, half) == IF b >= half THEN b - 2 * half ELSE b

\* struct.unpack(fmt, bytes)[0]
Unpack(t, bs) ==
    CASE t = "Boolean" -> (bs[1] # 0)
      [] t = "Byte" -> bs[1]
      [] t = "SByte" -> Signed(bs[1], 128)
      [] t = "UInt16" -> bs[1] + 256 * bs[2]
      [] t = "Int16" -> bs[1] + 256 * Signed(bs[2], 128)
      [] t = "Int32" -> bs[1] + 256 * bs[2] + 65536 * bs[3]
                        + 16777216 * Signed(bs[4], 128)
      [] t = "UInt32" -> Wide(bs[3] + 256 * bs[4], bs[1] + 256 * bs[2])
      [] OTHER -> [bits |-> bs]       \* Int64, UInt64, Single, Double

\* struct.pack(fmt, value)
Pack(t, v) ==
    CASE t = "Boolean" -> <<IF v THEN 1 ELSE 0>>
      [] t = "Byte" -> <<v>>
      [] t = "SByte" -> <<v % 256>>
      [] t \in {"UInt16", "Int16"} -> <<v % 256, (v \div 256) % 256>>
      [] t = "Int32" -> <<v % 256, (v \div 256) % 256, (v \div 65536) % 256,
                          (v \div 16777216) % 256>>
      [] t = "UInt32" -> <<v.lo % 256, v.lo \div 256, v.hi % 256, v.hi \div 256>>
      [] OTHER -> v.bits

ReadFixed(S, t) ==
    Then(read(S, TypeMapSize(t)), LAMBDA r : Ret(r.s, Unpack(t, r.v)))

\* bytes.decode("utf-8") succeeds
RECURSIVE Utf8Valid(_)
Utf8Valid(bs) ==
    IF bs = <<>> THEN TRUE
    ELSE LET b == bs[1]
             n == Len(bs)
             Cont(i) == i <= n /\ bs[i] \in 128..191
         IN  CASE b < 128 -> Utf8Valid(Tail(bs))
               [] b \in 194..223 -> Cont(2) /\ Utf8Valid(SubSeq(bs, 3, n))
               [] b = 224 -> n >= 2 /\ bs[2] \in 160..191 /\ Cont(3)
                             /\ Utf8Valid(SubSeq(bs, 4, n))
               [] b = 237 -> n >= 2 /\ bs[2] \in 128..159 /\ Cont(3)
                             /\ Utf8Valid(SubSeq(bs, 4, n))
               [] b \in (225..236) \cup {238, 239} ->
                             Cont(2) /\ Cont(3) /\ Utf8Valid(SubSeq(bs, 4, n))
               [] b = 240 -> n >= 2 /\ bs[2] \in 144..191 /\ Cont(3) /\ Cont(4)
                             /\ Utf8Valid(SubSeq(bs, 5, n))
               [] b \in 241..243 -> Cont(2) /\ Cont(3) /\ Cont(4)
                             /\ Utf8Valid(SubSeq(bs, 5, n))
               [] b = 244 -> n >= 2 /\ bs[2] \in 128..143 /\ Cont(3) /\ Cont(4)
                             /\ Utf8Valid(SubSeq(bs, 5, n))
               [] OTHER -> FALSE

\* read_write_string, mode "read".  A length of 65536 or more is past the end
\* of every stream of the model.
ReadString(S) ==
    Then(Read7BitEncodedInt(S), LAMBDA l :
        IF l.v.hi > 0 THEN Raise(l.s, "EOFError")
        ELSE Then(read(l.s, l.v.lo), LAMBDA r :
                 IF Utf8Valid(r.v) THEN r ELSE Raise(r.s, "UnicodeDecodeError")))

\* read_write_datetime, mode "read"
ReadDateTime(S) ==
    Then(ReadFixed(S, "Int64"), LAMBDA r :
        Ret(r.s, [Kind |-> IF r.v.bits[1] % 2 = 1 THEN "UTC"
                           ELSE IF (r.v.bits[1] \div 2) % 2 = 1 THEN "Local"
                           ELSE "None",
                  ticks |-> [bits |-> [r.v.bits EXCEPT ![1] = @ - (@ % 4)]]]))

\* read_write_primitive, mode "read"
ReadPrimitive(S, t) ==
    IF InTypeMap(t) THEN ReadFixed(S, t)
    ELSE IF t \in {"Char", "String"} THEN ReadString(S)
    ELSE IF t = "Decimal" THEN ReadString(S)
    ELSE IF t = "DateTime" THEN ReadDateTime(S)
    ELSE IF t = "TimeSpan" THEN ReadFixed(S, "Int64")
    ELSE IF Failed(S) THEN Ret(S, Nil)
    ELSE Raise(S, "ValueError: Unsupported primitive type")

\* an enum read that leaves the byte in the stream (sensitivity of C29)
ReadEnumPeek(S, enum) ==
    Then(ReadByte(S), LAMBDA r :
        IF r.v \in DOMAIN enum THEN Ret(S, enum[r.v])
        ELSE Raise(r.s, "ValueError: not a valid enum value"))

\* read_write_enum, mode "read": the name of the member
ReadEnum(S, enum) ==
    Then(ReadByte(S), LAMBDA r :
        IF r.v \in DOMAIN enum THEN Ret(r.s, enum[r.v])
        ELSE Raise(r.s, "ValueError: not a valid enum value"))

\* a loop "[f() for _ in range(count)]" over a reader f: S -> [s, v]
RECURSIVE ReadList(_, _, _, _)
ReadList(F(_), S, count, acc) ==
    IF Failed(S) \/ count <= 0 THEN Ret(S, acc)
    ELSE Then(F(S), LAMBDA r : ReadList(F, r.s, count - 1, Append(acc, r.v)))

ReadInt32(S) == ReadFixed(S, "Int32")

\* read_write_class_type_info, mode "read"
ReadClassTypeInfo(S) ==
    Then(ReadString(S), LAMBDA n :
    Then(ReadInt32(n.s), LAMBDA l :
        Ret(l.s, [TypeName |-> n.v, LibraryId |-> l.v])))

\* read_write_class_info, mode "read"
ReadClassInfo(S) ==
    Then(ReadInt32(S), LAMBDA o :
    Then(ReadString(o.s), LAMBDA n :
    Then(ReadInt32(n.s), LAMBDA c :
    Then(ReadList(ReadString, c.s, c.v, <<>>), LAMBDA m :
        Ret(m.s, [ObjectId |-> o.v, Name |-> n.v,
                  MemberCount |-> c.v, MemberNames |-> m.v])))))

\* read_write_binary_type_info, mode "read".  The info is kept as a record:
\* [PrimitiveTypeEnum] for the name of a primitive kind, [SystemClass] for a
\* type name, the class type info itself, Nil for None.
ReadBinaryTypeInfo(S, binary_type) ==
    IF Failed(S) THEN Ret(S, Nil)
    ELSE IF binary_type \in {"Primitive", "PrimitiveArray"}
    THEN Then(ReadEnum(S, PrimitiveType), LAMBDA r :
             Ret(r.s, [PrimitiveTypeEnum |-> r.v]))
    ELSE IF binary_type = "SystemClass"
    THEN Then(ReadString(S), LAMBDA r : Ret(r.s, [SystemClass |-> r.v]))
    ELSE IF binary_type = "Class" THEN ReadClassTypeInfo(S)
    ELSE IF binary_type \in {"String", "StringArray", "Object"} THEN Ret(S, Nil)
    ELSE Raise(S, "ValueError: Unexpected binary_type")

RECURSIVE ReadInfos(_, _, _, _)
ReadInfos(S, btypes, i, acc) ==
    IF Failed(S) \/ i > Len(btypes) THEN Ret(S, acc)
    ELSE Then(ReadBinaryTypeInfo(S, btypes[i]), LAMBDA r :
             ReadInfos(r.s, btypes, i + 1, Append(acc, r.v)))

ReadBinaryTypeEnum(S) == ReadEnum(S, BinaryType)

\* read_write_member_type_info, mode "read": all kinds first, then the infos
ReadMemberTypeInfo(S, count) ==
    Then(ReadList(ReadBinaryTypeEnum, S, count, <<>>), LAMBDA b :
    Then(ReadInfos(b.s, b.v, 1, <<>>), LAMBDA a :
        Ret(a.s, [BinaryTypeEnums |-> b.v, AdditionalInfos |-> a.v])))

\* read_write_array_info, mode "read"
ReadArrayInfo(S) ==
    Then(ReadInt32(S), LAMBDA o :
    Then(ReadInt32(o.s), LAMBDA l :
        Ret(l.s, [ObjectId |-> o.v, Length |-> l.v])))

---------------------------------------------------------------------------
(* Lookup of a record by object id                                         *)

IsDict(x) == "prim" \notin DOMAIN x

Has(d, k) == k \in DOMAIN d

\* The result of get_parent_by_object_id: a dict, a list, or None.
ParentDict(d) == [kind |-> "dict", d |-> d]

ParentList == [kind |-> "list"]

ParentNone == [kind |-> "none"]

\* The values of a dict that can hold a dict with an "ObjectId", in insertion
\* order: the nested info dict first, the "Values" list last.
RECURSIVE GetParentInDict(_, _, _)
RECURSIVE GetParentInList(_, _, _)

\* get_parent_by_object_id(target_id, data, parent) for a dict data
GetParentInDict(target_id, data, parent) ==
    IF ~IsDict(data) THEN ParentNone
    ELSE IF Has(data, "ObjectId") /\ data.ObjectId = target_id THEN parent
    ELSE Bind(IF Has(data, "__temp_record")
              THEN GetParentInDict(target_id, data.__temp_record, ParentDict(data))
              ELSE IF Has(data, "ClassInfo")
              THEN GetParentInDict(target_id, data.ClassInfo, ParentDict(data))
              ELSE IF Has(data, "ArrayInfo")
              THEN GetParentInDict(target_id, data.ArrayInfo, ParentDict(data))
              ELSE ParentNone,
              LAMBDA inner :
                  IF inner # ParentNone THEN inner
                  ELSE IF Has(data, "Values")
                  THEN GetParentInList(target_id, data.Values, 1)
                  ELSE ParentNone)

\* get_parent_by_object_id(target_id, data, parent) for a list data, from item i
GetParentInList(target_id, data, i) ==
    IF i > Len(data) THEN ParentNone
    ELSE Bind(GetParentInDict(target_id, data[i], ParentList), LAMBDA r :
             IF r # ParentNone THEN r
             ELSE GetParentInList(target_id, data, i + 1))

\* get_parent_by_object_id(metadata_id, self.records)
GetParentByObjectId(target_id, recs) == GetParentInList(target_id, recs, 1)

RECURSIVE GetElementInDict(_, _)
RECURSIVE GetElementInList(_, _, _)

\* get_element_by_object_id(target_id, data) for a dict data: the dict itself
\* when its own "ObjectId" is the target, else the first hit among its values
GetElementInDict(target_id, data) ==
    IF ~IsDict(data) THEN ParentNone
    ELSE IF Has(data, "ObjectId") /\ data.ObjectId = target_id THEN ParentDict(data)
    ELSE Bind(IF Has(data, "__temp_record")
              THEN GetElementInDict(target_id, data.__temp_record)
              ELSE IF Has(data, "ClassInfo")
              THEN GetElementInDict(target_id, data.ClassInfo)
              ELSE IF Has(data, "ArrayInfo")
              THEN GetElementInDict(target_id, data.ArrayInfo)
              ELSE ParentNone,
              LAMBDA inner :
                  IF inner # ParentNone THEN inner
                  ELSE IF Has(data, "Values")
                  THEN GetElementInList(target_id, data.Values, 1)
                  ELSE ParentNone)

\* get_element_by_object_id(target_id, data) for a list data, from item i
GetElementInList(target_id, data, i) ==
    IF i > Len(data) THEN ParentNone
    ELSE Bind(GetElementInDict(target_id, data[i]), LAMBDA r :
             IF r # ParentNone THEN r
             ELSE GetElementInList(target_id, data, i + 1))

\* get_element_by_object_id(target_id): data defaults to self.records
GetElementByObjectId(target_id, recs) == GetElementInList(target_id, recs, 1)

---------------------------------------------------------------------------
(* Records, mode "read"                                                    *)

\* result["RecordTypeEnum"] = record_type.name
Stamp(r, name) ==
    [k \in DOMAIN r \cup {"RecordTypeEnum"} |->
        IF k = "RecordTypeEnum" THEN name ELSE r[k]]

\* class_record["Values"] = values
WithValues(r, values) ==
    [k \in DOMAIN r \cup {"Values"} |-> IF k = "Values" THEN values ELSE r[k]]

\* a cursor that counts a null run as one slot (sensitivity of C8)
SlotsAlwaysOne(value) == 1

\* the slots an element record takes in an array
Slots(value) == IF Has(value, "NullCount") THEN value.NullCount ELSE 1

RECURSIVE ReadRecord(_)

\* the loop of read_write_array_values and of handle_binary_array
RECURSIVE ReadArrayLoop(_, _, _, _)
ReadArrayLoop(S, length, i, values) ==
    IF Failed(S) \/ ~(i < length) THEN Ret(S, values)
    ELSE Then(ReadRecord(S), LAMBDA r :
             IF i + Slots(r.v) > length
             THEN Raise(r.s, "ValueError: Too many records in array.")
             ELSE ReadArrayLoop(r.s, length, i + Slots(r.v), Append(values, r.v)))

\* read_write_array_values, mode "read"
ReadArrayValues(S, length) == ReadArrayLoop(S, length, 0, <<>>)

\* read_write_value, mode "read"
ReadValue(S, binary_type, additional_info) ==
    IF binary_type = "Primitive"
    THEN Then(ReadPrimitive(S, additional_info.PrimitiveTypeEnum), LAMBDA r :
             Ret(r.s, [prim |-> r.v]))
    ELSE ReadRecord(S)

\* a member loop that stops one member early (sensitivity of C7)
RECURSIVE ReadMembersSkipLast(_, _, _, _, _)
ReadMembersSkipLast(S, meta, m_count, i, values) ==
    IF Failed(S) \/ i >= m_count THEN Ret(S, values)
    ELSE IF ~Has(meta, "MemberTypeInfo") THEN Raise(S, "KeyError: MemberTypeInfo")
    ELSE Then(ReadValue(S, meta.MemberTypeInfo.BinaryTypeEnums[i],
                        meta.MemberTypeInfo.AdditionalInfos[i]),
              LAMBDA r : ReadMembersSkipLast(r.s, meta, m_count, i + 1,
                                             Append(values, r.v)))

\* the loop of read_write_class_values, mode "read"
RECURSIVE ReadMembers(_, _, _, _, _)
ReadMembers(S, meta, m_count, i, values) ==
    IF Failed(S) \/ i > m_count THEN Ret(S, values)
    ELSE IF ~Has(meta, "MemberTypeInfo") THEN Raise(S, "KeyError: MemberTypeInfo")
    ELSE Then(ReadValue(S, meta.MemberTypeInfo.BinaryTypeEnums[i],
                        meta.MemberTypeInfo.AdditionalInfos[i]),
              LAMBDA r : ReadMembers(r.s, meta, m_count, i + 1, Append(values, r.v)))

\* the key of self.objects for a class record
ObjectKey(class_record) ==
    IF Has(class_record, "ClassInfo") THEN class_record.ClassInfo.ObjectId
    ELSE class_record.ObjectId

\* self.objects[object_id] = class_record
StoreObject(objects, class_record) ==
    [k \in DOMAIN objects \cup {ObjectKey(class_record)} |->
        IF k = ObjectKey(class_record) THEN class_record ELSE objects[k]]

\* read_write_class_values, mode "read", once the metadata record is found
ReadClassValuesWith(S, class_record, found) ==
    IF found.kind # "dict"
    THEN Raise(S, "TypeError: metadata record is not a dict")
    ELSE IF ~Has(found.d, "ClassInfo") THEN Raise(S, "KeyError: ClassInfo")
    ELSE Then(ReadMembers(S, found.d, found.d.ClassInfo.MemberCount, 1, <<>>),
              LAMBDA m : Ret(m.s, WithValues(class_record, m.v)))

\* read_write_class_values, mode "read": the class record with its Values
ReadClassValues(S, class_record) ==
    IF Failed(S) THEN Ret(S, Nil)
    ELSE ReadClassValuesWith(S, class_record,
             IF Has(class_record, "MetadataId")
             THEN GetParentByObjectId(class_record.MetadataId, S.records)
             ELSE ParentDict(class_record))

\* handle_class_with_id, mode "read"
ReadClassWithId(S) ==
    Then(ReadInt32(S), LAMBDA o :
    Then(ReadInt32(o.s), LAMBDA m :
        ReadClassValues(m.s, [ObjectId |-> o.v, MetadataId |-> m.v])))

\* handle_system_class_with_members / handle_class_with_members, mode "read"
ReadClassWithMembers(S, system) ==
    Then(ReadClassInfo(S), LAMBDA c :
        IF system THEN Ret(c.s, [ClassInfo |-> c.v])
        ELSE Then(ReadInt32(c.s), LAMBDA l :
                 Ret(l.s, [ClassInfo |-> c.v, LibraryId |-> l.v])))

\* self.records.append({"__temp_record": record_data})
PushTemp(S, record_data) ==
    [S EXCEPT !.records = Append(@, [__temp_record |-> record_data])]

\* record_data of handle_class_with_members_and_types before its Values
RecordData(class_info, member_type_info, library_id, system) ==
    IF system
    THEN [ClassInfo |-> class_info, MemberTypeInfo |-> member_type_info]
    ELSE [ClassInfo |-> class_info, MemberTypeInfo |-> member_type_info,
          LibraryId |-> library_id]

\* a handler that reads the member values without the placeholder
\* (sensitivity of C23)
ReadClassNoPlaceholder(S, system, name) ==
    Then(ReadClassInfo(S), LAMBDA c :
    Then(ReadMemberTypeInfo(c.s, c.v.MemberCount), LAMBDA t :
    Then(IF system THEN Ret(t.s, 0) ELSE ReadInt32(t.s), LAMBDA l :
        ReadClassValues(l.s, RecordData(c.v, t.v, l.v, system)))))

\* handle_class_with_members_and_types, mode "read".  The placeholder holds
\* record_data itself, so the Values and the RecordTypeEnum the record gets
\* later show through it: the placeholder is rewritten when the record is
\* complete (the list only grows while a top-level record is read, so the
\* placeholder keeps its index).
ReadClassWithMembersAndTypes(S, system, name) ==
    Then(ReadClassInfo(S), LAMBDA c :
    Then(ReadMemberTypeInfo(c.s, c.v.MemberCount), LAMBDA t :
    Then(IF system THEN Ret(t.s, 0) ELSE ReadInt32(t.s), LAMBDA l :
    Then(ReadClassValues(PushTemp(l.s, RecordData(c.v, t.v, l.v, system)),
                         RecordData(c.v, t.v, l.v, system)),
         LAMBDA v :
             Ret([v.s EXCEPT !.records[Len(l.s.records) + 1] =
                                 [__temp_record |-> Stamp(v.v, name)]],
                 v.v)))))

IsOffset(k) == k \in {"SingleOffset", "JaggedOffset", "RectangularOffset"}

\* handle_binary_array, mode "read"
ReadBinaryArray(S) ==
    Then(ReadInt32(S), LAMBDA o :
    Then(ReadEnum(o.s, BinaryArrayType), LAMBDA k :
    Then(ReadInt32(k.s), LAMBDA rank :
    Then(ReadList(ReadInt32, rank.s, rank.v, <<>>), LAMBDA lengths :
    Then(IF IsOffset(k.v) THEN ReadList(ReadInt32, lengths.s, rank.v, <<>>)
         ELSE Ret(lengths.s, <<>>), LAMBDA bounds :
    Then(ReadEnum(bounds.s, BinaryType), LAMBDA bt :
    Then(ReadBinaryTypeInfo(bt.s, bt.v), LAMBDA info :
        IF IsOffset(k.v) \/ rank.v > 1
        THEN Raise(info.s, "NotImplementedError: BinaryArray")
        ELSE IF lengths.v = <<>> THEN Raise(info.s, "IndexError: lengths[0]")
        ELSE Then(ReadArrayLoop(info.s, lengths.v[1], 0, <<>>), LAMBDA vals :
                 Ret(vals.s,
                     [ObjectId |-> o.v, BinaryArrayTypeEnum |-> k.v,
                      rank |-> rank.v, Lengths |-> lengths.v,
                      LowerBounds |-> bounds.v, TypeEnum |-> bt.v,
                      AdditionalTypeInfo |-> info.v, Values |-> vals.v])))))))))

\* handle_array_single_primitive, mode "read"
ReadArraySinglePrimitive(S) ==
    Then(ReadArrayInfo(S), LAMBDA a :
    Then(ReadEnum(a.s, PrimitiveType), LAMBDA t :
    Then(ReadList(LAMBDA X : ReadPrimitive(X, t.v), t.s, a.v.Length, <<>>),
         LAMBDA vals :
             Ret(vals.s, [ArrayInfo |-> a.v, PrimitiveTypeEnum |-> t.v,
                          Values |-> [i \in 1..Len(vals.v) |->
                                         [prim |-> vals.v[i]]]]))))

\* handle_array_single, mode "read"
ReadArraySingle(S) ==
    Then(ReadArrayInfo(S), LAMBDA a :
    Then(ReadArrayValues(a.s, a.v.Length), LAMBDA vals :
        Ret(vals.s, [ArrayInfo |-> a.v, Values |-> vals.v])))

\* handle_serialized_stream_header, mode "read"
ReadSerializedStreamHeader(S) ==
    Then(ReadInt32(S), LAMBDA a :
    Then(ReadInt32(a.s), LAMBDA b :
    Then(ReadInt32(b.s), LAMBDA c :
    Then(ReadInt32(c.s), LAMBDA d :
        Ret(d.s, [RootId |-> a.v, HeaderId |-> b.v,
                  MajorVersion |-> c.v, MinorVersion |-> d.v])))))

\* handle_binary_object_string, mode "read"
ReadBinaryObjectString(S) ==
    Then(ReadInt32(S), LAMBDA o :
    Then(ReadString(o.s), LAMBDA v :
        Ret(v.s, [ObjectId |-> o.v, Value |-> v.v])))

\* handle_binary_library, mode "read"
ReadBinaryLibrary(S) ==
    Then(ReadInt32(S), LAMBDA o :
    Then(ReadString(o.s), LAMBDA v :
        Ret(v.s, [LibraryId |-> o.v, LibraryName |-> v.v])))

\* handle_member_primitive_typed, mode "read"
ReadMemberPrimitiveTyped(S) ==
    Then(ReadEnum(S, PrimitiveType), LAMBDA t :
    Then(ReadPrimitive(t.s, t.v), LAMBDA v :
        Ret(v.s, [PrimitiveTypeEnum |-> t.v, Value |-> v.v])))

\* handle_member_reference, mode "read"
ReadMemberReference(S) ==
    Then(ReadInt32(S), LAMBDA i :
        Ret([i.s EXCEPT !.references = Append(@, [IdRef |-> i.v])],
            [IdRef |-> i.v]))

\* handle_object_null_multiple_256 / handle_object_null_multiple, mode "read"
ReadObjectNullMultiple(S, t) ==
    Then(ReadFixed(S, t), LAMBDA n : Ret(n.s, [NullCount |-> n.v]))

\* the empty dict of handle_object_null and handle_message_end
Empty == [x \in {} |-> x]

\* process_record, mode "read": the handler of the record type
Handle(S, t) ==
    CASE t = "SerializedStreamHeader" -> ReadSerializedStreamHeader(S)
      [] t = "ClassWithId" -> ReadClassWithId(S)
      [] t = "SystemClassWithMembers" -> ReadClassWithMembers(S, TRUE)
      [] t = "ClassWithMembers" -> ReadClassWithMembers(S, FALSE)
      [] t = "SystemClassWithMembersAndTypes" ->
             ReadClassWithMembersAndTypes(S, TRUE, t)
      [] t = "ClassWithMembersAndTypes" -> ReadClassWithMembersAndTypes(S, FALSE, t)
      [] t = "BinaryObjectString" -> ReadBinaryObjectString(S)
      [] t = "BinaryArray" -> ReadBinaryArray(S)
      [] t = "MemberPrimitiveTyped" -> ReadMemberPrimitiveTyped(S)
      [] t = "MemberReference" -> ReadMemberReference(S)
      [] t \in {"ObjectNull", "MessageEnd"} -> Ret(S, Empty)
      [] t = "BinaryLibrary" -> ReadBinaryLibrary(S)
      [] t = "ObjectNullMultiple256" -> ReadObjectNullMultiple(S, "Byte")
      [] t = "ObjectNullMultiple" -> ReadObjectNullMultiple(S, "Int32")
      [] t = "ArraySinglePrimitive" -> ReadArraySinglePrimitive(S)
      [] t \in {"ArraySingleObject", "ArraySingleString"} -> ReadArraySingle(S)

\* the record kinds whose handler ends in read_write_class_values
WithClassValues ==
    {"ClassWithId", "SystemClassWithMembersAndTypes", "ClassWithMembersAndTypes"}

\* a dispatcher that returns an empty record for a kind without a handler
\* (sensitivity of C17)
ReadRecordSkipUnsupported(S) ==
    Then(ReadEnum(S, RecordType), LAMBDA t :
        IF t.v \notin Handled
        THEN Ret(t.s, Stamp([nil |-> TRUE], t.v))
        ELSE Then(Handle(t.s, t.v), LAMBDA r :
                 Ret(IF t.v \in WithClassValues
                     THEN [r.s EXCEPT !.objects = StoreObject(@, Stamp(r.v, t.v))]
                     ELSE r.s,
                     Stamp(r.v, t.v))))

\* read_write_record and process_record, mode "read".  self.objects holds the
\* class record itself, so it is stored here with its RecordTypeEnum.
ReadRecord(S) ==
    Then(ReadEnum(S, RecordType), LAMBDA t :
        IF t.v \notin Handled
        THEN Raise(t.s, "ValueError: Unsupported record type")
        ELSE Then(Handle(t.s, t.v), LAMBDA r :
                 Ret(IF t.v \in WithClassValues
                     THEN [r.s EXCEPT !.objects = StoreObject(@, Stamp(r.v, t.v))]
                     ELSE r.s,
                     Stamp(r.v, t.v))))

---------------------------------------------------------------------------
(* Records, mode "write".  A writer state W is [out, records, references,  *)
(* err]: the bytes written so far, self.records, self.references.          *)

NewWriter(recs) ==
    [out |-> <<>>, records |-> recs, references |-> <<>>, err |-> "none"]

\* self.stream.write(bs)
Emit(W, bs) == IF Failed(W) THEN W ELSE [W EXCEPT !.out = @ \o bs]

Fail(W, e) == IF Failed(W) THEN W ELSE [W EXCEPT !.err = e]

\* read_write_string, mode "write"
WriteString(W, value) ==
    Emit(W, Write7BitEncodedInt(Wide(0, Len(value))) \o value)

\* x | kind on the low two bits of a byte
OrKind(b, kind) ==
    b - (b % 4)
    + (IF b % 2 = 1 \/ kind % 2 = 1 THEN 1 ELSE 0)
    + (IF (b \div 2) % 2 = 1 \/ (kind \div 2) % 2 = 1 THEN 2 ELSE 0)

\* the kind bits of read_write_datetime
KindBits(kind) == IF kind = "UTC" THEN 1 ELSE IF kind = "Local" THEN 2 ELSE 0

\* read_write_datetime, mode "write"
WriteDateTime(W, value) ==
    Emit(W, [value.ticks.bits EXCEPT ![1] = OrKind(@, KindBits(value.Kind))])

\* read_write_primitive, mode "write"
WritePrimitive(W, t, value) ==
    IF InTypeMap(t) THEN Emit(W, Pack(t, value))
    ELSE IF t \in {"Char", "String", "Decimal"} THEN WriteString(W, value)
    ELSE IF t = "DateTime" THEN WriteDateTime(W, value)
    ELSE IF t = "TimeSpan" THEN Emit(W, Pack("Int64", value))
    ELSE Fail(W, "ValueError: Unsupported primitive type")

WriteInt32(W, value) == WritePrimitive(W, "Int32", value)

\* read_write_enum, mode "write", given a member of the enum
WriteEnum(W, enum, name) == Emit(W, <<EnumValue(enum, name)>>)

\* a loop "for item in items: f(item)" over a writer f
RECURSIVE WriteEach(_, _, _, _)
WriteEach(F(_, _), W, items, i) ==
    IF Failed(W) \/ i > Len(items) THEN W
    ELSE WriteEach(F, F(W, items[i]), items, i + 1)

\* read_write_class_type_info, mode "write"
WriteClassTypeInfo(W, value) ==
    WriteInt32(WriteString(W, value.TypeName), value.LibraryId)

\* read_write_class_info, mode "write"
WriteClassInfo(W, value) ==
    WriteEach(WriteString,
              WriteInt32(WriteString(WriteInt32(W, value.ObjectId), value.Name),
                         value.MemberCount),
              value.MemberNames, 1)

\* read_write_binary_type_info, mode "write"
WriteBinaryTypeInfo(W, binary_type, value) ==
    IF binary_type \in {"Primitive", "PrimitiveArray"}
    THEN WriteEnum(W, PrimitiveType, value.PrimitiveTypeEnum)
    ELSE IF binary_type = "SystemClass" THEN WriteString(W, value.SystemClass)
    ELSE IF binary_type = "Class" THEN WriteClassTypeInfo(W, value)
    ELSE IF binary_type \in {"String", "StringArray", "Object"} THEN W
    ELSE Fail(W, "ValueError: Unexpected binary_type")

RECURSIVE WriteInfos(_, _, _)
WriteInfos(W, value, i) ==
    IF Failed(W) \/ i > Len(value.AdditionalInfos) THEN W
    ELSE WriteInfos(WriteBinaryTypeInfo(W, value.BinaryTypeEnums[i],
                                        value.AdditionalInfos[i]),
                    value, i + 1)

\* read_write_member_type_info, mode "write"
WriteMemberTypeInfo(W, value) ==
    WriteInfos(WriteEach(LAMBDA X, name : WriteEnum(X, BinaryType, name),
                         W, value.BinaryTypeEnums, 1),
               value, 1)

\* read_write_array_info, mode "write"
WriteArrayInfo(W, value) == WriteInt32(WriteInt32(W, value.ObjectId), value.Length)

RECURSIVE WriteRecord(_, _)

\* read_write_value, mode "write"
WriteValue(W, binary_type, additional_info, value) ==
    IF Failed(W) THEN W
    ELSE IF binary_type = "Primitive"
    THEN WritePrimitive(W, additional_info.PrimitiveTypeEnum, value.prim)
    ELSE WriteRecord(W, value)

\* the loop of read_write_class_values, mode "write"
RECURSIVE WriteMembers(_, _, _, _)
WriteMembers(W, member_type_info, values, i) ==
    IF Failed(W) \/ i > Len(values) THEN W
    ELSE IF i > Len(member_type_info.BinaryTypeEnums)
    THEN Fail(W, "IndexError: BinaryTypeEnums")
    ELSE WriteMembers(WriteValue(W, member_type_info.BinaryTypeEnums[i],
                                 member_type_info.AdditionalInfos[i], values[i]),
                      member_type_info, values, i + 1)

\* read_write_class_values, mode "write", once the metadata record is found
WriteClassValuesWith(W, class_record, found) ==
    IF found.kind # "dict"
    THEN Fail(W, "TypeError: metadata record is not a dict")
    ELSE IF ~Has(found.d, "MemberTypeInfo")
    THEN Fail(W, "KeyError: MemberTypeInfo")
    ELSE WriteMembers(W, found.d.MemberTypeInfo, class_record.Values, 1)

\* read_write_class_values, mode "write"
WriteClassValues(W, class_record) ==
    IF Failed(W) THEN W
    ELSE IF ~Has(class_record, "MemberTypeInfo") /\ Has(class_record, "MetadataId")
    THEN WriteClassValuesWith(W, class_record,
             GetParentByObjectId(class_record.MetadataId, W.records))
    ELSE WriteClassValuesWith(W, class_record, ParentDict(class_record))

\* handle_class_with_members_and_types, mode "write"
WriteClassWithMembersAndTypes(W, record, system) ==
    WriteClassValues(
        IF system
        THEN WriteMemberTypeInfo(WriteClassInfo(W, record.ClassInfo),
                                 record.MemberTypeInfo)
        ELSE WriteInt32(WriteMemberTypeInfo(WriteClassInfo(W, record.ClassInfo),
                                            record.MemberTypeInfo),
                        record.LibraryId),
        record)

\* handle_binary_array, mode "write", up to the lower bounds
WriteBinaryArrayHead(W, record) ==
    WriteEach(WriteInt32,
              WriteInt32(WriteEnum(WriteInt32(W, record.ObjectId), BinaryArrayType,
                                   record.BinaryArrayTypeEnum),
                         record.rank),
              record.Lengths, 1)

\* handle_binary_array, mode "write"
WriteBinaryArray(W, record) ==
    WriteEach(WriteRecord,
              WriteBinaryTypeInfo(
                  WriteEnum(IF IsOffset(record.BinaryArrayTypeEnum)
                            THEN WriteEach(WriteInt32, WriteBinaryArrayHead(W, record),
                                           record.LowerBounds, 1)
                            ELSE WriteBinaryArrayHead(W, record),
                            BinaryType, record.TypeEnum),
                  record.TypeEnum, record.AdditionalTypeInfo),
              record.Values, 1)

\* handle_array_single_primitive, mode "write": read_write_enum is given the
\* name record["PrimitiveTypeEnum"], a str, and takes its .value
WriteArraySinglePrimitive(W, record) ==
    Fail(WriteArrayInfo(W, record.ArrayInfo),
         "AttributeError: 'str' object has no attribute 'value'")

\* handle_member_reference, mode "write"
WriteMemberReference(W, record) ==
    Bind(WriteInt32(W, record.IdRef), LAMBDA a :
        IF Failed(a) THEN a ELSE [a EXCEPT !.references = Append(@, record)])

\* process_record, mode "write": the handler of the record type
HandleWrite(W, t, record) ==
    CASE t = "SerializedStreamHeader" ->
             WriteInt32(WriteInt32(WriteInt32(WriteInt32(W, record.RootId),
                                              record.HeaderId),
                                   record.MajorVersion),
                        record.MinorVersion)
      [] t = "ClassWithId" ->
             WriteClassValues(WriteInt32(WriteInt32(W, record.ObjectId),
                                         record.MetadataId),
                              record)
      [] t = "SystemClassWithMembers" -> WriteClassInfo(W, record.ClassInfo)
      [] t = "ClassWithMembers" ->
             WriteInt32(WriteClassInfo(W, record.ClassInfo), record.LibraryId)
      [] t = "SystemClassWithMembersAndTypes" ->
             WriteClassWithMembersAndTypes(W, record, TRUE)
      [] t = "ClassWithMembersAndTypes" ->
             WriteClassWithMembersAndTypes(W, record, FALSE)
      [] t = "BinaryObjectString" ->
             WriteString(WriteInt32(W, record.ObjectId), record.Value)
      [] t = "BinaryArray" -> WriteBinaryArray(W, record)
      [] t = "MemberPrimitiveTyped" ->
             WritePrimitive(WriteEnum(W, PrimitiveType, record.PrimitiveTypeEnum),
                            record.PrimitiveTypeEnum, record.Value)
      [] t = "MemberReference" -> WriteMemberReference(W, record)
      [] t \in {"ObjectNull", "MessageEnd"} -> W
      [] t = "BinaryLibrary" ->
             WriteString(WriteInt32(W, record.LibraryId), record.LibraryName)
      [] t = "ObjectNullMultiple256" -> WritePrimitive(W, "Byte", record.NullCount)
      [] t = "ObjectNullMultiple" -> WriteInt32(W, record.NullCount)
      [] t = "ArraySinglePrimitive" -> WriteArraySinglePrimitive(W, record)
      [] t \in {"ArraySingleObject", "ArraySingleString"} ->
             WriteEach(WriteRecord, WriteArrayInfo(W, record.ArrayInfo),
                       record.Values, 1)

\* read_write_record and process_record, mode "write"
WriteRecord(W, record) ==
    IF Failed(W) THEN W
    ELSE IF ~Has(record, "RecordTypeEnum") THEN Fail(W, "KeyError: RecordTypeEnum")
    ELSE IF record.RecordTypeEnum \notin Handled
    THEN Fail(WriteEnum(W, RecordType, record.RecordTypeEnum),
              "ValueError: Unsupported record type")
    ELSE HandleWrite(WriteEnum(W, RecordType, record.RecordTypeEnum),
                     record.RecordTypeEnum, record)

---------------------------------------------------------------------------
(* Compression.  zlib's gzip framing is a 10-byte header (magic 1F 8B,     *)
(* method 8, flags, 4 bytes of time, XFL, OS), the deflate stream and an   *)
(* 8-byte trailer (check value, size).  The deflate stream is modelled as  *)
(* one stored block and the check value as the byte sum; the framing, and  *)
(* what is and is not checked on the way back, are zlib's.                 *)

GzipMagic == <<31, 139>>

\* XFL and OS as zlib writes them at the default level on a Unix build
ZlibXflOs == <<0, 3>>

\* the bytes compress_gzip_zlib puts at offsets 8 and 9
FixedXflOs == <<4, 0>>

RECURSIVE Sum(_)
Sum(bs) == IF bs = <<>> THEN 0 ELSE bs[1] + Sum(Tail(bs))

LE16(n) == <<n % 256, (n \div 256) % 256>>

Deflate(data) ==
    <<1>> \o LE16(Len(data)) \o LE16(65535 - Len(data)) \o data

Trailer(data) == LE16(Sum(data)) \o <<0, 0>> \o LE16(Len(data)) \o <<0, 0>>

\* compressor.compress(data) + compressor.flush()
ZlibGzip(data) ==
    GzipMagic \o <<8, 0, 0, 0, 0, 0>> \o ZlibXflOs \o Deflate(data) \o Trailer(data)

\* compressed_data[:8] + b"\x04\x00" + compressed_data[10:]
FixHeader(compressed_data) ==
    SubSeq(compressed_data, 1, 8) \o FixedXflOs
    \o SubSeq(compressed_data, 11, Len(compressed_data))

\* compress_gzip_zlib
compress_gzip_zlib(data) == FixHeader(ZlibGzip(data))

\* the length field of the stored block of a frame
StoredLen(data) == data[12] + 256 * data[13]

\* decompress_gzip_zlib: [ok, data].  Header bytes 5..10 (time, XFL, OS) are
\* not checked; bytes after the trailer are ignored.
decompress_gzip_zlib(data) ==
    IF /\ Len(data) >= 23
       /\ SubSeq(data, 1, 4) = GzipMagic \o <<8, 0>>
       /\ data[11] = 1
       /\ LE16(65535 - StoredLen(data)) = <<data[14], data[15]>>
       /\ Len(data) >= 23 + StoredLen(data)
       /\ SubSeq(data, 16 + StoredLen(data), 23 + StoredLen(data))
              = Trailer(SubSeq(data, 16, 15 + StoredLen(data)))
    THEN [ok |-> TRUE, data |-> SubSeq(data, 16, 15 + StoredLen(data))]
    ELSE [ok |-> FALSE, data |-> <<>>]

---------------------------------------------------------------------------
(* UDLG                                                                    *)

UDLG_SIGNATURE ==
    <<249, 83, 139, 131, 31, 54, 50, 67, 186, 174, 13, 23, 134, 93, 8, 84>>

\* a read that returns one byte fewer than asked (sensitivity of C1)
PrefixOneShort(bs, n) == SubSeq(bs, 1, IF Len(bs) < n - 1 THEN Len(bs) ELSE n - 1)

\* f.read(n) on a file: up to n bytes, never an error
Prefix(bs, n) == SubSeq(bs, 1, IF Len(bs) < n THEN Len(bs) ELSE n)

HexDigits ==
    <<"0", "1", "2", "3", "4", "5", "6", "7", "8", "9", "A", "B", "C", "D", "E", "F">>

\* hex digits with the low nibble first (sensitivity of C13)
HexLowNibbleFirst(bs) ==
    [i \in 1..(2 * Len(bs)) |->
        IF i % 2 = 1 THEN HexDigits[(bs[(i + 1) \div 2] % 16) + 1]
        ELSE HexDigits[(bs[i \div 2] \div 16) + 1]]

\* bytes.hex().upper(): a list of hex digits
Hex(bs) ==
    [i \in 1..(2 * Len(bs)) |->
        IF i % 2 = 1 THEN HexDigits[(bs[(i + 1) \div 2] \div 16) + 1]
        ELSE HexDigits[(bs[i \div 2] % 16) + 1]]

DigitValue(d) == (CHOOSE k \in 1..16 : HexDigits[k] = d) - 1

\* bytes.fromhex of a list of hex digits of even length
FromHex(ds) ==
    [i \in 1..(Len(ds) \div 2) |->
        16 * DigitValue(ds[2 * i - 1]) + DigitValue(ds[2 * i])]

\* a sniff that leaves the stream after the two bytes it looked at
\* (sensitivity of C14)
SniffPayloadNoRewind(h, rest) ==
    IF Prefix(rest, 2) = GzipMagic
    THEN Bind(decompress_gzip_zlib(rest), LAMBDA d :
             IF d.ok
             THEN [s |-> NewSerializer(d.data), header |-> h.v, compressed |-> TRUE]
             ELSE [s |-> [h.s EXCEPT !.err =
                             "IOError: Error decompressing gzip payload"],
                   header |-> h.v, compressed |-> FALSE])
    ELSE [s |-> [h.s EXCEPT !.pos = @ + Len(Prefix(rest, 2))],
          header |-> h.v, compressed |-> FALSE]

\* UDLG.parse after the header h is read: the compression sniff on the rest
SniffPayload(h, rest) ==
    IF Prefix(rest, 2) = GzipMagic
    THEN Bind(decompress_gzip_zlib(rest), LAMBDA d :
             IF d.ok
             THEN [s |-> NewSerializer(d.data), header |-> h.v, compressed |-> TRUE]
             ELSE [s |-> [h.s EXCEPT !.err =
                             "IOError: Error decompressing gzip payload"],
                   header |-> h.v, compressed |-> FALSE])
    ELSE [s |-> h.s, header |-> h.v, compressed |-> FALSE]

\* UDLG.parse up to the record loop: [s, header, compressed]
ParseStart(bytes) ==
    Bind(read(NewSerializer(bytes), 24), LAMBDA h :
        IF Failed(h.s) THEN [s |-> h.s, header |-> <<>>, compressed |-> FALSE]
        ELSE SniffPayload(h, SubSeq(bytes, 25, Len(bytes))))

\* a loop that keeps the placeholders (sensitivity of C24)
StripTempKeepsAll(recs) == recs

\* [r for r in self.records if "__temp_record" not in r]
StripTemp(recs) == SelectSeq(recs, LAMBDA r : ~Has(r, "__temp_record"))

\* an iteration that also takes a top-level ObjectNull for the end
\* (sensitivity of C12)
ParseIterationEndOrNull(S, recs) ==
    Bind(ReadRecord([S EXCEPT !.records = recs]), LAMBDA r :
        IF Failed(r.s) THEN [s |-> r.s, records |-> r.s.records, done |-> FALSE]
        ELSE [s |-> r.s, records |-> Append(StripTemp(r.s.records), r.v),
              done |-> r.v.RecordTypeEnum \in {"MessageEnd", "ObjectNull"}])

\* One iteration of the loop of UDLG.parse: [s, records, done].  The list
\* given to the serializer is UDLG.records itself, so the placeholders the
\* handlers append are in it until it is replaced by the filtered list.
ParseIteration(S, recs) ==
    Bind(ReadRecord([S EXCEPT !.records = recs]), LAMBDA r :
        IF Failed(r.s) THEN [s |-> r.s, records |-> r.s.records, done |-> FALSE]
        ELSE [s |-> r.s, records |-> Append(StripTemp(r.s.records), r.v),
              done |-> r.v.RecordTypeEnum = "MessageEnd"])

\* the loop of UDLG.parse: [records, compressed, err]
RECURSIVE ParseLoop(_, _, _)
ParseLoop(S, recs, compressed_flag) ==
    Bind(ParseIteration(S, recs), LAMBDA q :
        IF Failed(q.s)
        THEN [records |-> q.records, compressed |-> compressed_flag, err |-> q.s.err]
        ELSE IF q.done
        THEN [records |-> q.records, compressed |-> compressed_flag, err |-> "none"]
        ELSE ParseLoop(q.s, q.records, compressed_flag))

\* UDLG.parse as a whole: [records, compressed, err]
Parse(bytes) ==
    Bind(ParseStart(bytes), LAMBDA p :
        IF Failed(p.s)
        THEN [records |-> <<>>, compressed |-> p.compressed, err |-> p.s.err]
        ELSE ParseLoop(p.s, <<>>, p.compressed))

\* UDLG.encode: the temporary serializer after the records are written
EncodePayload(recs) == WriteEach(WriteRecord, NewWriter(recs), recs, 1)

\* UDLG.encode: the stream written, given the temporary serializer
EncodeBytes(hex_header, W, compress) ==
    IF Failed(W) THEN FromHex(hex_header)
    ELSE FromHex(hex_header)
         \o (IF compress THEN compress_gzip_zlib(W.out) ELSE W.out)

---------------------------------------------------------------------------
(* The files given to the decode command: a 24-byte header followed by a   *)
(* payload.  A payload is made of fragments, each the bytes of a record or *)
(* of the head of an array or class record: up to MaxFrags fragments of    *)
(* any kind, or a head followed by up to MaxElems element records;         *)
(* optionally followed by a MessageEnd tag.                                *)

MaxFrags == 2

MaxElems == 2

MaxGzFrags == 1

I32(n) == Pack("Int32", n)

Str(bs) == Write7BitEncodedInt(Wide(0, Len(bs))) \o bs

FragEnd == <<11>>

FragNull == <<10>>

\* ObjectNullMultiple256{2}
FragNulls2 == <<13, 2>>

\* BinaryObjectString{1, "x"}
FragStr1 == <<6>> \o I32(1) \o Str(<<120>>)

\* MemberReference{1}
FragRef1 == <<9>> \o I32(1)

\* ArraySingleObject{2, Length 2}, ArraySingleString{3, Length -1}, heads
FragArr2 == <<16>> \o I32(2) \o I32(2)

FragArrNeg == <<17>> \o I32(3) \o I32(-1)

\* BinaryArray{3, Single, rank 1, Lengths [2], Object}, head
FragBinArr2 == <<7>> \o I32(3) \o <<0>> \o I32(1) \o I32(2) \o <<2>>

\* ClassWithMembersAndTypes{7, "C", one member a of kind Object, library 0}, head
FragCls1 == <<5>> \o I32(7) \o Str(<<67>>) \o I32(1) \o Str(<<97>>) \o <<2>> \o I32(0)

\* ClassWithMembersAndTypes{4, "P", one member n of kind Primitive Byte,
\* library 0} with the value 9
FragClsP ==
    <<5>> \o I32(4) \o Str(<<80>>) \o I32(1) \o Str(<<110>>) \o <<0>> \o <<2>>
    \o I32(0) \o <<9>>

\* ClassWithId{5, metadata 4} with the value 8
FragClsId == <<1>> \o I32(5) \o I32(4) \o <<8>>

\* ArraySinglePrimitive{6, Length 1, Byte} with the value 7
FragPrimArr == <<15>> \o I32(6) \o I32(1) \o <<2>> \o <<7>>

AllFrags ==
    {FragNull, FragNulls2, FragStr1, FragRef1, FragArr2, FragArrNeg,
     FragBinArr2, FragCls1, FragClsP, FragClsId, FragPrimArr}

Heads == {FragArr2, FragBinArr2, FragCls1}

Elems == {FragNull, FragNulls2, FragStr1}

\* the concatenations of at most n elements of frags
RECURSIVE Concats(_, _)
Concats(frags, n) ==
    IF n = 0 THEN {<<>>}
    ELSE UNION {{p, p \o f} : p \in Concats(frags, n - 1), f \in frags}

Tails == {<<>>, FragEnd}

Payloads ==
    {p \o t : p \in Concats(AllFrags, MaxFrags)
                    \cup {h \o e : h \in Heads, e \in Concats(Elems, MaxElems)},
              t \in Tails}

\* the 8 header bytes after the signature
Opaque ==
    {<<0, 0, 0, 0, 0, 0, 0, 0>>, <<1, 2, 3, 4, 5, 6, 7, 255>>,
     <<31, 139, 8, 0, 249, 83, 11, 10>>}

GoodHeader == UDLG_SIGNATURE \o <<1, 2, 3, 4, 5, 6, 7, 255>>

\* a gzip frame around a payload, with the XFL and OS bytes of its writer
Gzip(data, xflos) ==
    [ZlibGzip(data) EXCEPT ![9] = xflos[1], ![10] = xflos[2]]

PlainFiles == {GoodHeader \o p : p \in Payloads}

\* BinaryArray{3, kind, rank, Lengths [2]*rank, LowerBounds [0]*rank for an
\* Offset kind, Object}, head
FragBinArr(kind, rank) ==
    <<7>> \o I32(3) \o <<kind>> \o I32(rank)
    \o (IF rank >= 1 THEN I32(2) ELSE <<>>) \o (IF rank >= 2 THEN I32(2) ELSE <<>>)
    \o (IF kind >= 3 /\ rank >= 1 THEN I32(0) ELSE <<>>)
    \o (IF kind >= 3 /\ rank >= 2 THEN I32(0) ELSE <<>>)
    \o <<2>>

Ranks == {-1, 0, 1, 2}

\* a BinaryArray of every kind and rank, two nulls and MessageEnd
ShapePayloads ==
    {FragBinArr(kind, rank) \o FragNull \o FragNull \o FragEnd :
         kind \in 0..5, rank \in Ranks}

\* ClassWithMembers{4, "E", no member, library 0}
FragClsM0 == <<3>> \o I32(4) \o Str(<<69>>) \o I32(0) \o I32(0)

\* ClassWithMembers{4, "F", one member a, library 0}
FragClsM1 == <<3>> \o I32(4) \o Str(<<70>>) \o I32(1) \o Str(<<97>>) \o I32(0)

\* SystemClassWithMembersAndTypes{4, "S", no member}
FragSysCls0 == <<4>> \o I32(4) \o Str(<<83>>) \o I32(0)

\* ClassWithMembersAndTypes{4, "D", one member a of kind Object, library 0}, head
FragCls4 == <<5>> \o I32(4) \o Str(<<68>>) \o I32(1) \o Str(<<97>>) \o <<2>> \o I32(0)

\* BinaryObjectString{4, "x"}, ArraySingleObject{4, Length 0}
FragStr4 == <<6>> \o I32(4) \o Str(<<120>>)

FragArr4 == <<16>> \o I32(4) \o I32(0)

\* ClassWithId{6, metadata 4}, ClassWithId{4, metadata 4}: the object id and
\* the metadata id, the member values follow
FragClsId6 == <<1>> \o I32(6) \o I32(4)

FragClsId4 == <<1>> \o I32(4) \o I32(4)

\* a ClassWithId after a record of every kind that declares object id 4,
\* after none, and among the member values of the class it names
MetadataPayloads ==
    {d \o FragClsId6 \o FragEnd :
         d \in {<<>>, FragClsM0, FragClsM1, FragSysCls0, FragStr4, FragArr4,
                FragClsId4, FragArr2 \o FragStr4 \o FragNull}}
    \cup {FragCls4 \o FragNull \o FragClsId6 \o FragNull \o FragEnd,
          FragCls4 \o FragClsId6 \o FragNull \o FragEnd,
          FragSysCls0 \o FragClsId6 \o FragClsId4 \o FragEnd}

\* SystemClassWithMembersAndTypes{4, "S", one member a of kind Object}, head
FragSysCls4 == <<4>> \o I32(4) \o Str(<<83>>) \o I32(1) \o Str(<<97>>) \o <<2>>

\* ClassWithMembersAndTypes{4, "D", members a of kind Object and b of kind
\* Primitive Byte, library 0}, head
FragCls42 ==
    <<5>> \o I32(4) \o Str(<<68>>) \o I32(2) \o Str(<<97>>) \o Str(<<98>>)
    \o <<2, 0>> \o <<2>> \o I32(0)

\* ArraySingleObject{8, Length 1}, head; ClassWithId{5, metadata 4}, head
FragArr1 == <<16>> \o I32(8) \o I32(1)

FragClsId54 == <<1>> \o I32(5) \o I32(4)

\* a ClassWithId that names the class it is a member value of: directly, in
\* a system class, in an array, in another ClassWithId, with a primitive
\* member after it, and in a class that is itself a member value
NestPayloads ==
    {FragCls4 \o FragClsId6 \o FragNull \o FragEnd,
     FragSysCls4 \o FragClsId6 \o FragNull \o FragEnd,
     FragCls4 \o FragArr1 \o FragClsId6 \o FragNull \o FragEnd,
     FragCls4 \o FragClsId6 \o FragClsId54 \o FragNull \o FragEnd,
     FragCls42 \o FragClsId6 \o FragNull \o <<8>> \o <<9>> \o FragEnd,
     FragCls1 \o FragCls4 \o FragClsId6 \o FragNull \o FragEnd}

\* record tags that are not a record kind, and the two reserved kinds
BadTags == {18, 19, 20, 21, 22, 23, 255}

\* a bad tag first, after a record, in an array, among member values
TagPayloads ==
    UNION {{<<t>> \o FragNull \o FragEnd, FragNull \o <<t>> \o FragEnd,
            FragArr2 \o FragNull \o <<t>> \o FragEnd,
            FragCls1 \o <<t>> \o FragEnd} : t \in BadTags}

\* bytes after the first top-level MessageEnd; MessageEnd as an element
EndPayloads ==
    {p \o FragEnd \o t : p \in {<<>>, FragNull, FragStr1},
                         t \in {FragNull, FragEnd, <<255>>, FragStr1 \o FragEnd}}
    \cup {FragArr2 \o FragEnd \o FragNull \o FragEnd \o FragNull,
          FragArr2 \o FragEnd \o FragEnd \o FragEnd,
          FragCls1 \o FragEnd \o FragEnd \o FragEnd}

ExtraFiles ==
    {GoodHeader \o p :
         p \in ShapePayloads \cup MetadataPayloads \cup TagPayloads \cup EndPayloads
               \cup NestPayloads}

SmallPayloads == {p \o t : p \in Concats(AllFrags, MaxGzFrags), t \in Tails}

GzipFiles ==
    {GoodHeader \o Gzip(p, x) : p \in SmallPayloads, x \in {FixedXflOs, ZlibXflOs}}
    \cup {GoodHeader \o GzipMagic \o p : p \in SmallPayloads}
    \cup {GoodHeader \o Gzip(FragNull \o <<21>>, FixedXflOs),
          GoodHeader \o Gzip(FragEnd, FixedXflOs) \o FragNull,
          GoodHeader \o <<31>>, GoodHeader \o <<31, 138>> \o FragEnd}

\* a wrong signature byte, fewer than 16 bytes, a signature and a short header
OddHeads ==
    {[UDLG_SIGNATURE EXCEPT ![16] = 85] \o <<0, 0, 0, 0, 0, 0, 0, 0>>,
     SubSeq(UDLG_SIGNATURE, 1, 15),
     UDLG_SIGNATURE \o <<0, 0, 0>>}
    \cup {UDLG_SIGNATURE \o o : o \in Opaque}

OddFiles == {h \o p : h \in OddHeads, p \in SmallPayloads}

\* ObjectNullMultiple256{0}, ObjectNullMultiple{0}, ObjectNullMultiple{-1}
FragNulls0 == <<13, 0>>

FragNullsInt0 == <<14>> \o I32(0)

FragNullsNeg == <<14>> \o I32(-1)

\* arrays whose null runs fill no slot or give one back, complete or cut short
NullRunPayloads ==
    {FragArr2 \o FragNulls0 \o FragNull \o FragNull \o FragEnd,
     FragArr2 \o FragNullsNeg \o FragNull \o FragNull \o FragNull \o FragEnd,
     FragBinArr2 \o FragNullsInt0 \o FragNulls2 \o FragEnd,
     FragBinArr2 \o FragNullsNeg \o FragNullsNeg \o FragNulls2 \o FragNulls2 \o FragEnd,
     FragArr2 \o FragNullsNeg \o FragEnd,
     FragBinArr2 \o FragNulls0 \o FragNulls0 \o FragEnd,
     FragCls1 \o FragArr1 \o FragNullsInt0 \o FragNulls0 \o FragNull \o FragEnd}

\* files that decode, with a record of every family, the MessageEnd last
TruncSources ==
    {GoodHeader \o p :
        p \in {FragStr1 \o FragEnd,
               FragArr2 \o FragNull \o FragStr1 \o FragEnd,
               FragArrNeg \o FragEnd,
               FragBinArr2 \o FragNulls2 \o FragEnd,
               FragClsP \o FragClsId \o FragEnd,
               FragPrimArr \o FragRef1 \o FragEnd,
               FragCls4 \o FragArr1 \o FragClsId6 \o FragNull \o FragEnd,
               FragArr2 \o FragNullsNeg \o FragNull \o FragNull \o FragNull \o FragEnd}}

\* every proper prefix of such a file
TruncFiles ==
    UNION {{SubSeq(f, 1, n) : n \in 0..(Len(f) - 1)} : f \in TruncSources}

Files ==
    PlainFiles \cup GzipFiles \cup OddFiles \cup ExtraFiles \cup TruncSources
    \cup TruncFiles \cup {GoodHeader \o p : p \in NullRunPayloads}

\* The decoded data is a JSON file the user may edit before encoding it: one
\* record of the tree, counted in the order the records are written, gets a
\* new string "Value" or a new "RecordTypeEnum".
NoEdit == [kind |-> "none", at |-> 0, text |-> <<>>, name |-> ""]

\* "" and "yz"
NewStrings == {<<>>, <<121, 122>>}

ReservedKinds == {"MethodCall", "MethodReturn"}

\* the records of a list and of their Values, in the order they are written
RECURSIVE Preorder(_)
Preorder(list) ==
    IF list = <<>> THEN <<>>
    ELSE IF ~IsDict(list[1]) THEN Preorder(Tail(list))
    ELSE <<list[1]>>
         \o (IF Has(list[1], "Values") THEN Preorder(list[1].Values) ELSE <<>>)
         \o Preorder(Tail(list))

\* the number of records in a Values list, at any depth
Size(list) == Len(Preorder(list))

\* list with its n-th record, in that order, replaced by F of it
RECURSIVE EditList(_, _, _)
EditList(F(_), list, n) ==
    IF list = <<>> THEN <<>>
    ELSE IF ~IsDict(list[1]) THEN <<list[1]>> \o EditList(F, Tail(list), n)
    ELSE IF n = 1 THEN <<F(list[1])>> \o Tail(list)
    ELSE IF Has(list[1], "Values") /\ n - 1 <= Size(list[1].Values)
    THEN <<[list[1] EXCEPT !.Values = EditList(F, @, n - 1)]>> \o Tail(list)
    ELSE <<list[1]>>
         \o EditList(F, Tail(list),
                     n - 1 - (IF Has(list[1], "Values") THEN Size(list[1].Values)
                              ELSE 0))

\* the edits of a record list: none, a new Value for one of its strings, a
\* reserved kind for one of its records
Edits(recs) ==
    {NoEdit}
    \cup {[kind |-> "string", at |-> n, text |-> s, name |-> ""] :
             n \in {k \in 1..Size(recs) :
                       /\ Has(Preorder(recs)[k], "RecordTypeEnum")
                       /\ Preorder(recs)[k].RecordTypeEnum = "BinaryObjectString"},
             s \in NewStrings}
    \cup {[kind |-> "kind", at |-> n, text |-> <<>>, name |-> k] :
             n \in 1..Size(recs), k \in ReservedKinds}

\* the record list after an edit
Edited(recs, e) ==
    IF e.kind = "none" THEN recs
    ELSE IF e.kind = "string"
    THEN EditList(LAMBDA r : [r EXCEPT !.Value = e.text], recs, e.at)
    ELSE EditList(LAMBDA r : [r EXCEPT !.RecordTypeEnum = e.name], recs, e.at)

\* an output file opened before the result is computed (sensitivity of C18)
WriteTruncatesFirst(complete, file) == IF complete THEN "written" ELSE "truncated"

\* process_file opens the output file once the result is complete; until
\* then the file is as it was
WriteAfter(complete, file) == IF complete THEN "written" ELSE file

\* the output files before the command: none, or files left by an earlier run
Priors == {"absent", "old"}

CsvIdle ==
    csv = [mode |-> "english", include_file_path |-> FALSE, rows |-> <<>>,
           data |-> <<>>, result |-> <<>>, extracted |-> <<>>]

NlIdle == nl = [text |-> <<>>, escaped |-> <<>>, back |-> <<>>]

DtIdle == dt = [bytes |-> <<>>, value |-> Nil, written |-> <<>>, err |-> "none"]

\* a CSV file as csv.DictReader gives it: the field names, then the rows
NoCsv == [header |-> <<>>, rows |-> <<>>]

TrIdle ==
    tr = [csv |-> NoCsv, txt |-> <<>>, err |-> "none", was |-> NoCsv,
          edited |-> FALSE]

ToolsIdle == NlIdle /\ DtIdle /\ TrIdle

V7Idle == v7 = [value |-> WZero, bytes |-> <<>>, result |-> WZero,
                used |-> 0, err |-> "none"]

NotParsed == [records |-> <<>>, compressed |-> FALSE, err |-> "none"]

SignatureMismatch == "Exit(1): not a valid UDLG file (signature mismatch)"

Init ==
    /\ pc = "start"
    /\ \/ walk = "file" /\ input \in Files
       \/ walk = "dir" /\ input \in OddFiles
    /\ ser = NewSerializer(<<>>)
    /\ header = <<>>
    /\ compressed = FALSE
    /\ records = <<>>
    /\ err = "none"
    /\ flag = "absent"
    /\ output = <<>>
    /\ again = NotParsed
    /\ V7Idle
    /\ edit = NoEdit
    /\ \E p \in Priors : disk = [prior |-> p, json |-> p, udlg |-> p]
    /\ CsvIdle
    /\ ToolsIdle

\* The decode command up to process_file: the signature check on the first
\* 16 bytes.  For a file argument a mismatch ends the command with exit code
\* 1; in a directory walk the file is skipped.
DecodeCommand ==
    /\ pc = "start"
    /\ IF Prefix(input, 16) # UDLG_SIGNATURE
       THEN IF walk = "file"
            THEN pc' = "exit" /\ err' = SignatureMismatch
            ELSE pc' = "skipped" /\ err' = err
       ELSE pc' = "parse" /\ err' = err
    /\ UNCHANGED <<input, walk, ser, header, compressed, records, flag, output,
                   again, v7, edit, disk, csv, nl, dt, tr>>

\* UDLG.parse: the header and the compression sniff
ParseHeader ==
    /\ pc = "parse"
    /\ \E p \in {ParseStart(input)} :
          /\ ser' = p.s
          /\ header' = p.header
          /\ compressed' = p.compressed
          /\ err' = p.s.err
          /\ pc' = IF Failed(p.s) THEN "failed" ELSE "loop"
    /\ UNCHANGED <<input, walk, records, flag, output, again, v7, edit, disk, csv, nl, dt, tr>>

\* UDLG.parse: one iteration of the record loop; after MessageEnd the result
\* is returned and process_file writes it as JSON
ParseRecord ==
    /\ pc = "loop"
    /\ \E p \in {ParseIteration(ser, records)} :
          /\ ser' = p.s
          /\ records' = p.records
          /\ err' = p.s.err
          /\ pc' = IF Failed(p.s) THEN "failed"
                   ELSE IF p.done THEN "decoded" ELSE "loop"
          /\ disk' = [disk EXCEPT !.json = WriteAfter(~Failed(p.s) /\ p.done, @)]
    /\ UNCHANGED <<input, walk, header, compressed, flag, output, again, v7, edit,
                   csv, nl, dt, tr>>

\* process_file on the decoded data, edited or not, whose "Compressed" entry
\* is true, false or missing: UDLG.encode into a BytesIO, then the output file
Encode ==
    /\ pc = "decoded"
    /\ \E f \in {"true", "false", "absent"}, e \in Edits(records) :
          \E W \in {EncodePayload(Edited(records, e))} :
              /\ flag' = f
              /\ edit' = e
              /\ output' = EncodeBytes(Hex(header), W, f = "true")
              /\ err' = W.err
              /\ pc' = IF Failed(W) THEN "encode_failed" ELSE "encoded"
              /\ disk' = [disk EXCEPT !.udlg = WriteAfter(~Failed(W), @)]
    /\ UNCHANGED <<input, walk, ser, header, compressed, records, again, v7, csv, nl, dt, tr>>

\* the decode command on the file written by encode
DecodeOutput ==
    /\ pc = "encoded"
    /\ pc' = "redecoded"
    /\ again' = IF Prefix(output, 16) # UDLG_SIGNATURE
                THEN [NotParsed EXCEPT !.err = SignatureMismatch]
                ELSE Parse(output)
    /\ UNCHANGED <<input, walk, ser, header, compressed, records, err, flag,
                   output, v7, edit, disk, csv, nl, dt, tr>>

Next == DecodeCommand \/ ParseHeader \/ ParseRecord \/ Encode \/ DecodeOutput

Spec == Init /\ [][Next]_vars

\* UDLG.parse runs to its return or its exception without waiting on
\* anything: the header read and each iteration of the loop are taken once
\* they can be.  The encode command is the user's to run or not.
FairSpec == Spec /\ WF_vars(DecodeCommand) /\ WF_vars(ParseHeader) /\ WF_vars(ParseRecord)

---------------------------------------------------------------------------
(* The 7-bit codec on its own: write a value, read the bytes back          *)

MaxSmall == 40

Lows == (0..MaxSmall) \cup {127, 128, 300, 16383, 16384, 65535}

Highs == {0, 1, 31, 32, 4095, 4096, 65535}

FileIdle ==
    /\ input = <<>>
    /\ walk = "file"
    /\ ser = NewSerializer(<<>>)
    /\ header = <<>>
    /\ compressed = FALSE
    /\ records = <<>>
    /\ err = "none"
    /\ flag = "absent"
    /\ output = <<>>
    /\ again = NotParsed
    /\ edit = NoEdit
    /\ disk = [prior |-> "absent", json |-> "absent", udlg |-> "absent"]

Init7 ==
    /\ pc = "v_start"
    /\ CsvIdle
    /\ ToolsIdle
    /\ \E hi \in Highs, lo \in Lows :
          v7 = [value |-> Wide(hi, lo), bytes |-> <<>>, result |-> WZero,
                used |-> 0, err |-> "none"]
    /\ FileIdle

Write7 ==
    /\ pc = "v_start"
    /\ pc' = "v_written"
    /\ v7' = [v7 EXCEPT !.bytes = Write7BitEncodedInt(v7.value)]
    /\ UNCHANGED <<input, walk, ser, header, compressed, records, err, flag,
                   output, again, edit, disk, csv, nl, dt, tr>>

Read7 ==
    /\ pc = "v_written"
    /\ pc' = "v_read"
    /\ \E r \in {Read7BitEncodedInt(NewSerializer(v7.bytes))} :
          v7' = [v7 EXCEPT !.result = r.v, !.used = r.s.pos, !.err = r.s.err]
    /\ UNCHANGED <<input, walk, ser, header, compressed, records, err, flag,
                   output, again, edit, disk, csv, nl, dt, tr>>

Next7 == Write7 \/ Read7

Spec7 == Init7 /\ [][Next7]_vars

---------------------------------------------------------------------------
(* replace_texts_from_csv: the translations of a CSV put into decoded data *)

\* str.replace("\\n", "\r\n"): backslash, n becomes CR, LF
RECURSIVE Unescape(_)
Unescape(s) ==
    IF Len(s) < 2 THEN s
    ELSE IF s[1] = 92 /\ s[2] = 110
    THEN <<13, 10>> \o Unescape(SubSeq(s, 3, Len(s)))
    ELSE <<s[1]>> \o Unescape(Tail(s))

\* c in s
Contains(s, c) == \E i \in 1..Len(s) : s[i] = c

\* the index of the first c of s
FirstOf(s, c) == CHOOSE i \in 1..Len(s) : s[i] = c /\ \A j \in 1..(i - 1) : s[j] # c

\* s.split("|", 1) of a string with a "|"
VarKey(s) == SubSeq(s, 1, FirstOf(s, 124) - 1)

FilePart(s) == SubSeq(s, FirstOf(s, 124) + 1, Len(s))

\* Path.name: what follows the last "/"
RECURSIVE PathName(_)
PathName(path) ==
    IF Contains(path, 47) THEN PathName(SubSeq(path, FirstOf(path, 47) + 1, Len(path)))
    ELSE path

\* str(relative): the path of the file under base_path, without suffix: d/f
Relative == <<100, 47, 102>>

\* translations[k] = v
Put(d, k, v) == [x \in DOMAIN d \cup {k} |-> IF x = k THEN v ELSE d[x]]

\* the entry <<key, translation>> a CSV row gives, <<>> if it gives none
RowEntry(row, mode, include_file_path) ==
    IF mode = "variables"
    THEN IF include_file_path
         THEN IF Len(row) >= 4 /\ row[1] = Relative /\ row[2] # <<>> /\ row[3] # <<>>
              THEN <<row[2], Unescape(row[4])>>
              ELSE <<>>
         ELSE IF Len(row) >= 3
              THEN IF Contains(row[1], 124)
                   THEN IF FilePart(row[1]) = PathName(Relative) /\ row[2] # <<>>
                        THEN <<VarKey(row[1]), Unescape(row[3])>>
                        ELSE <<>>
                   ELSE IF row[2] # <<>>
                        THEN <<row[1], Unescape(row[3])>>
                        ELSE <<>>
              ELSE <<>>
    ELSE IF include_file_path
         THEN IF Len(row) >= 3 /\ row[1] = Relative /\ row[2] # <<>>
              THEN <<Unescape(row[2]), Unescape(row[3])>>
              ELSE <<>>
         ELSE IF Len(row) >= 2 /\ row[1] # <<>>
              THEN <<Unescape(row[1]), Unescape(row[2])>>
              ELSE <<>>

PutEntry(d, e) == IF e = <<>> THEN d ELSE Put(d, e[1], e[2])

\* the translations dict, filled row by row: a later row replaces the entry
\* of an earlier row with the same key
RECURSIVE Translations(_, _, _, _)
Translations(d, rows, mode, include_file_path) ==
    IF rows = <<>> THEN d
    ELSE Translations(PutEntry(d, RowEntry(rows[1], mode, include_file_path)),
                      Tail(rows), mode, include_file_path)

\* a translation that keeps the empty string (sensitivity of C19)
AppliedVerbatim(translation, original) == translation

\* if the translated text is empty the original text is used
Applied(translation, original) ==
    IF translation = <<>> THEN original ELSE translation

IsString(x) ==
    IsDict(x) /\ Has(x, "RecordTypeEnum") /\ x.RecordTypeEnum = "BinaryObjectString"

\* entry.get("Value", "")
ValueOf(x) == IF Has(x, "Value") THEN x.Value ELSE <<>>

\* entry["Value"] = v
SetValue(x, v) == [k \in DOMAIN x \cup {"Value"} |-> IF k = "Value" THEN v ELSE x[k]]

\* the key chosen for a variable: <<key>>, or <<>> for None
ChosenKey(d, variable_text, include_file_path) ==
    IF include_file_path THEN <<variable_text>>
    ELSE IF variable_text \in DOMAIN d THEN <<variable_text>>
    ELSE IF (variable_text \o <<124>> \o PathName(Relative)) \in DOMAIN d
    THEN <<variable_text \o <<124>> \o PathName(Relative)>>
    ELSE <<>>

\* text_entry after the body of the pair loop, for the key chosen
ReplaceWithKey(d, key, text_entry) ==
    IF key # <<>> /\ key[1] \in DOMAIN d
    THEN SetValue(text_entry, Applied(d[key[1]], ValueOf(text_entry)))
    ELSE text_entry

ReplacePair(d, var_entry, text_entry, include_file_path) ==
    IF IsString(var_entry) /\ IsString(text_entry)
    THEN ReplaceWithKey(d, ChosenKey(d, ValueOf(var_entry), include_file_path),
                        text_entry)
    ELSE text_entry

\* variables mode on one Values list: an int first, then (variable, text)
\* pairs vals[i], vals[i + 1] for i in range(1, len(vals) - 1, 2); the pairs
\* do not overlap and only the text of a pair is assigned
ReplaceVariables(d, vals, include_file_path) ==
    IF Len(vals) >= 3 /\ ~IsDict(vals[1])
    THEN [j \in 1..Len(vals) |->
             IF j >= 3 /\ j % 2 = 1
             THEN ReplacePair(d, vals[j - 1], vals[j], include_file_path)
             ELSE vals[j]]
    ELSE vals

\* "English"
English == <<69, 110, 103, 108, 105, 115, 104>>

\* english_object_ids of one Values list
EnglishIdsOf(vals) ==
    {vals[i].ObjectId : i \in {j \in 1..Len(vals) :
                                  /\ IsString(vals[j])
                                  /\ ValueOf(vals[j]) = English
                                  /\ Has(vals[j], "ObjectId")}}

EnglishObjectIds(recs) ==
    UNION {EnglishIdsOf(recs[i].Values) : i \in {j \in 1..Len(recs) : Has(recs[j], "Values")}}

\* the text after an English marker, with its translation if there is one
ReplaceEnglish(d, val) ==
    IF ValueOf(val) \in DOMAIN d
    THEN SetValue(val, Applied(d[ValueOf(val)], ValueOf(val)))
    ELSE val

\* English mode on one Values list, from the state of the loop:
\* previous_was_english and previous_id_ref (0 for None: both are falsy)
RECURSIVE EnglishLoop(_, _, _, _, _)
EnglishLoop(vals, d, ids, previous_was_english, previous_id_ref) ==
    IF vals = <<>> THEN <<>>
    ELSE IF ~IsDict(vals[1])
    THEN <<vals[1]>> \o EnglishLoop(Tail(vals), d, ids, FALSE, 0)
    ELSE IF Has(vals[1], "RecordTypeEnum") /\ vals[1].RecordTypeEnum = "MemberReference"
    THEN <<vals[1]>> \o EnglishLoop(Tail(vals), d, ids, previous_was_english,
                                    vals[1].IdRef)
    ELSE IF IsString(vals[1])
    THEN IF ValueOf(vals[1]) = English
         THEN <<vals[1]>> \o EnglishLoop(Tail(vals), d, ids, TRUE, previous_id_ref)
         ELSE IF previous_was_english
                 \/ (previous_id_ref # 0 /\ previous_id_ref \in ids)
         THEN <<ReplaceEnglish(d, vals[1])>> \o EnglishLoop(Tail(vals), d, ids, FALSE, 0)
         ELSE <<vals[1]>> \o EnglishLoop(Tail(vals), d, ids, FALSE, previous_id_ref)
    ELSE <<vals[1]>> \o EnglishLoop(Tail(vals), d, ids, previous_was_english,
                                    previous_id_ref)

\* the loop over data["Records"] with the translations d
ReplaceInRecords(d, recs, mode, include_file_path) ==
    [i \in 1..Len(recs) |->
        IF ~Has(recs[i], "Values") THEN recs[i]
        ELSE IF mode = "variables"
        THEN [recs[i] EXCEPT !.Values = ReplaceVariables(d, @, include_file_path)]
        ELSE [recs[i] EXCEPT
                 !.Values = EnglishLoop(@, d, EnglishObjectIds(recs), FALSE, 0)]]

\* replace_texts_from_csv on data["Records"]
ReplaceTextsFromCsv(recs, rows, mode, include_file_path) ==
    ReplaceInRecords(Translations(<<>>, rows, mode, include_file_path),
                     recs, mode, include_file_path)

(* extract_texts_to_csv: the texts of decoded data put into CSV rows       *)

\* str.replace("\r\n", "\\n"): CR, LF becomes backslash, n
RECURSIVE EscapeCrLf(_)
EscapeCrLf(s) ==
    IF Len(s) < 2 THEN s
    ELSE IF s[1] = 13 /\ s[2] = 10
    THEN <<92, 110>> \o EscapeCrLf(SubSeq(s, 3, Len(s)))
    ELSE <<s[1]>> \o EscapeCrLf(Tail(s))

\* str.replace("\n", "\\n"): LF becomes backslash, n
RECURSIVE EscapeLf(_)
EscapeLf(s) ==
    IF s = <<>> THEN s
    ELSE IF s[1] = 10 THEN <<92, 110>> \o EscapeLf(Tail(s))
    ELSE <<s[1]>> \o EscapeLf(Tail(s))

\* processed_text
Escape(s) == EscapeLf(EscapeCrLf(s))

\* if row not in csv_data: csv_data.append(row)
AppendNew(csv_data, row) ==
    IF \E k \in 1..Len(csv_data) : csv_data[k] = row THEN csv_data
    ELSE Append(csv_data, row)

\* the row of a (variable, text) pair
VariablesRow(variable_text, actual_text, include_file_path) ==
    IF include_file_path
    THEN <<Relative, variable_text, Escape(actual_text), <<>>>>
    ELSE <<variable_text \o <<124>> \o PathName(Relative), Escape(actual_text), <<>>>>

\* variables mode on one Values list, from the pair vals[j - 1], vals[j] on
\* (1-based; i = j - 2 in range(1, len(vals) - 1, 2))
RECURSIVE ExtractPairs(_, _, _, _)
ExtractPairs(vals, j, csv_data, include_file_path) ==
    IF j > Len(vals) THEN csv_data
    ELSE ExtractPairs(vals, j + 2,
             IF IsString(vals[j - 1]) /\ IsString(vals[j])
             THEN AppendNew(csv_data,
                            VariablesRow(ValueOf(vals[j - 1]), ValueOf(vals[j]),
                                         include_file_path))
             ELSE csv_data,
             include_file_path)

ExtractVariables(vals, csv_data, include_file_path) ==
    IF Len(vals) >= 3 /\ ~IsDict(vals[1])
    THEN ExtractPairs(vals, 3, csv_data, include_file_path)
    ELSE csv_data

\* the row of a text after an English marker
EnglishRow(current_text, include_file_path) ==
    IF include_file_path THEN <<Relative, Escape(current_text), <<>>>>
    ELSE <<Escape(current_text), <<>>>>

\* English mode on one Values list, from the state of the loop
RECURSIVE ExtractEnglishLoop(_, _, _, _, _, _)
ExtractEnglishLoop(vals, csv_data, ids, previous_was_english, previous_id_ref, include_file_path) ==
    IF vals = <<>> THEN csv_data
    ELSE IF ~IsDict(vals[1])
    THEN ExtractEnglishLoop(Tail(vals), csv_data, ids, FALSE, 0, include_file_path)
    ELSE IF Has(vals[1], "RecordTypeEnum") /\ vals[1].RecordTypeEnum = "MemberReference"
    THEN ExtractEnglishLoop(Tail(vals), csv_data, ids, previous_was_english,
                            vals[1].IdRef, include_file_path)
    ELSE IF IsString(vals[1])
    THEN IF ValueOf(vals[1]) = English
         THEN ExtractEnglishLoop(Tail(vals), csv_data, ids, TRUE, previous_id_ref,
                                 include_file_path)
         ELSE IF previous_was_english
                 \/ (previous_id_ref # 0 /\ previous_id_ref \in ids)
         THEN ExtractEnglishLoop(Tail(vals),
                  AppendNew(csv_data, EnglishRow(ValueOf(vals[1]), include_file_path)),
                  ids, FALSE, 0, include_file_path)
         ELSE ExtractEnglishLoop(Tail(vals), csv_data, ids, FALSE, previous_id_ref,
                                 include_file_path)
    ELSE ExtractEnglishLoop(Tail(vals), csv_data, ids, previous_was_english,
                            previous_id_ref, include_file_path)

\* the loop over data["Records"], from record i on
RECURSIVE ExtractFromRecords(_, _, _, _, _)
ExtractFromRecords(recs, i, csv_data, mode, include_file_path) ==
    IF i > Len(recs) THEN csv_data
    ELSE ExtractFromRecords(recs, i + 1,
             IF ~Has(recs[i], "Values") THEN csv_data
             ELSE IF mode = "variables"
             THEN ExtractVariables(recs[i].Values, csv_data, include_file_path)
             ELSE ExtractEnglishLoop(recs[i].Values, csv_data, EnglishObjectIds(recs),
                                     FALSE, 0, include_file_path),
             mode, include_file_path)

\* extract_texts_to_csv on data["Records"]: csv_data after the call
ExtractTextsToCsv(recs, csv_data, mode, include_file_path) ==
    ExtractFromRecords(recs, 1, csv_data, mode, include_file_path)

(* inputs *)

MaxRows == 2

BStr(id, s) == [RecordTypeEnum |-> "BinaryObjectString", ObjectId |-> id, Value |-> s]

MRef(id) == [RecordTypeEnum |-> "MemberReference", IdRef |-> id]

\* a class record with member values
Rec(vals) ==
    [RecordTypeEnum |-> "ClassWithId", ObjectId |-> 9, MetadataId |-> 8,
     Values |-> vals]

\* variables v, w; texts "o" and "o" CR LF
CsvDatas ==
    {<<Rec(<<[prim |-> 1], BStr(2, <<118>>), BStr(3, <<111>>)>>)>>,
     <<Rec(<<[prim |-> 1], BStr(2, <<118>>), BStr(3, <<111>>),
             BStr(4, <<119>>), BStr(5, <<111, 13, 10>>)>>),
       [RecordTypeEnum |-> "MessageEnd"]>>,
     <<Rec(<<BStr(1, English), BStr(2, <<111>>)>>)>>,
     <<Rec(<<BStr(1, English)>>),
       Rec(<<MRef(1), BStr(3, <<111, 13, 10>>), [prim |-> 1], BStr(4, <<111>>)>>)>>,
     <<Rec(<<[prim |-> 1], BStr(2, <<118>>), BStr(1, English), BStr(3, <<111>>),
             BStr(4, <<118>>)>>)>>,
     <<Rec(<<BStr(1, English), [RecordTypeEnum |-> "ObjectNull"], BStr(3, <<111>>),
             MRef(1), MRef(7), BStr(4, <<111, 13, 10>>)>>)>>}

\* the cells of the rows: files d/f and d/g; originals "o", "o\n" with the
\* escape, ""; translations "", "T", "T\n" with the escape, and "U"
CsvFiles == {Relative, <<100, 47, 103>>}

CsvTranslations == {<<>>, <<84>>, <<84, 92, 110>>}

\* rows [File, Variable, Original, Translation]
RowsVariablesFile ==
    {<<f, <<118>>, o, t>> : f \in CsvFiles, o \in {<<111>>, <<>>}, t \in CsvTranslations}
    \cup {<<Relative, <<119>>, <<111>>, <<84>>>>, <<Relative, <<118>>, <<111>>>>}

\* rows [Variable or Variable|name, Original, Translation]
RowsVariables ==
    {<<k, <<111>>, t>> : k \in {<<118>>, <<118, 124, 102>>, <<118, 124, 103>>},
                         t \in {<<>>, <<84>>, <<85>>}}
    \cup {<<<<118>>, <<>>, <<84>>>>, <<<<119>>, <<111>>, <<84, 92, 110>>>>,
          <<<<118>>, <<111>>>>}

\* rows [File, Original, Translation]
RowsEnglishFile ==
    {<<f, o, t>> : f \in CsvFiles, o \in {<<111>>, <<111, 92, 110>>},
                   t \in CsvTranslations}
    \cup {<<Relative, <<111>>>>}

\* rows [Original, Translation]
RowsEnglish ==
    {<<o, t>> : o \in {<<111>>, <<111, 92, 110>>, <<>>, English},
                t \in CsvTranslations}
    \cup {<<<<111>>>>}

RowsOf(mode, include_file_path) ==
    IF mode = "variables"
    THEN (IF include_file_path THEN RowsVariablesFile ELSE RowsVariables)
    ELSE (IF include_file_path THEN RowsEnglishFile ELSE RowsEnglish)

\* the CSVs of at most n rows
RECURSIVE CsvsOf(_, _)
CsvsOf(rowset, n) ==
    IF n = 0 THEN {<<>>}
    ELSE CsvsOf(rowset, n - 1)
         \cup {Append(c, r) : c \in {x \in CsvsOf(rowset, n - 1) : Len(x) = n - 1},
                              r \in rowset}

InitCsv ==
    /\ pc = "csv_start"
    /\ FileIdle
    /\ V7Idle
    /\ ToolsIdle
    /\ \E mode \in {"english", "variables"}, include_file_path \in BOOLEAN :
          \E rows \in CsvsOf(RowsOf(mode, include_file_path), MaxRows),
             data \in CsvDatas :
              csv = [mode |-> mode, include_file_path |-> include_file_path,
                     rows |-> rows, data |-> data, result |-> <<>>,
                     extracted |-> <<>>]

\* process_file, encode with use_csv: the data after replace_texts_from_csv
ReplaceTexts ==
    /\ pc = "csv_start"
    /\ pc' = "csv_done"
    /\ csv' = [csv EXCEPT !.result = ReplaceTextsFromCsv(csv.data, csv.rows, csv.mode,
                                                         csv.include_file_path)]
    /\ UNCHANGED <<input, walk, ser, header, compressed, records, err, flag,
                   output, again, v7, edit, disk, nl, dt, tr>>

\* process_file, decode with use_csv: csv_data after extract_texts_to_csv,
\* from the empty list of the decode command
ExtractTexts ==
    /\ pc = "csv_start"
    /\ pc' = "csv_extracted"
    /\ csv' = [csv EXCEPT !.extracted = ExtractTextsToCsv(csv.data, <<>>, csv.mode,
                                                          csv.include_file_path)]
    /\ UNCHANGED <<input, walk, ser, header, compressed, records, err, flag,
                   output, again, v7, edit, disk, nl, dt, tr>>

NextCsv == ReplaceTexts \/ ExtractTexts

SpecCsv == InitCsv /\ [][NextCsv]_vars

---------------------------------------------------------------------------
(* The newline escaping on its own: a text escaped for the CSV by          *)
(* extract_texts_to_csv and read back by replace_texts_from_csv            *)

MaxText == 3

\* a, CR, LF, backslash, n
TextChars == {97, 13, 10, 92, 110}

RECURSIVE TextsOf(_)
TextsOf(n) ==
    IF n = 0 THEN {<<>>}
    ELSE TextsOf(n - 1)
         \cup {Append(s, c) : s \in {x \in TextsOf(n - 1) : Len(x) = n - 1},
                              c \in TextChars}

InitNl ==
    /\ pc = "nl_start"
    /\ FileIdle
    /\ V7Idle
    /\ CsvIdle
    /\ DtIdle
    /\ TrIdle
    /\ \E s \in TextsOf(MaxText) : nl = [text |-> s, escaped |-> <<>>, back |-> <<>>]

\* the Original cell of the row extract_texts_to_csv writes for the text
EscapeText ==
    /\ pc = "nl_start"
    /\ pc' = "nl_escaped"
    /\ nl' = [nl EXCEPT !.escaped = Escape(nl.text)]
    /\ UNCHANGED <<input, walk, ser, header, compressed, records, err, flag,
                   output, again, v7, edit, disk, csv, dt, tr>>

\* the key replace_texts_from_csv makes of that cell
UnescapeText ==
    /\ pc = "nl_escaped"
    /\ pc' = "nl_done"
    /\ nl' = [nl EXCEPT !.back = Unescape(nl.escaped)]
    /\ UNCHANGED <<input, walk, ser, header, compressed, records, err, flag,
                   output, again, v7, edit, disk, csv, dt, tr>>

NextNl == EscapeText \/ UnescapeText

SpecNl == InitNl /\ [][NextNl]_vars

---------------------------------------------------------------------------
(* The DateTime codec on its own: 8 bytes read, the value written back     *)

\* the 64-bit values, low byte first: every low byte, under a few high parts
DateTimeBytes ==
    {<<b1, b2, 0, 0, 0, 0, 0, b8>> : b1 \in Byte, b2 \in {0, 255}, b8 \in {0, 127, 128, 255}}

InitDt ==
    /\ pc = "dt_start"
    /\ FileIdle
    /\ V7Idle
    /\ CsvIdle
    /\ NlIdle
    /\ TrIdle
    /\ \E bs \in DateTimeBytes :
          dt = [bytes |-> bs, value |-> Nil, written |-> <<>>, err |-> "none"]

\* read_write_datetime, mode "read", on the 8 bytes
ReadDt ==
    /\ pc = "dt_start"
    /\ pc' = "dt_read"
    /\ \E r \in {ReadDateTime(NewSerializer(dt.bytes))} :
          dt' = [dt EXCEPT !.value = r.v, !.err = r.s.err]
    /\ UNCHANGED <<input, walk, ser, header, compressed, records, err, flag,
                   output, again, v7, edit, disk, csv, nl, tr>>

\* read_write_datetime, mode "write", on the value read
WriteDt ==
    /\ pc = "dt_read"
    /\ dt.err = "none"
    /\ pc' = "dt_written"
    /\ \E W \in {WriteDateTime(NewWriter(<<>>), dt.value)} :
          dt' = [dt EXCEPT !.written = W.out, !.err = W.err]
    /\ UNCHANGED <<input, walk, ser, header, compressed, records, err, flag,
                   output, again, v7, edit, disk, csv, nl, tr>>

NextDt == ReadDt \/ WriteDt

SpecDt == InitDt /\ [][NextDt]_vars


---------------------------------------------------------------------------
(* extract_translation_dialogs: extract the Translation column to a text   *)
(* file, insert the lines of the text file back.  A str is the sequence of *)
(* its code points; a CSV file is what csv.DictReader gives and            *)
(* csv.DictWriter takes: the field names and the rows, a row being the     *)
(* sequence of its fields in the order of the field names.                 *)

\* the characters str.splitlines breaks a line at
LineBreaks == {10, 11, 12, 13, 28, 29, 30, 133, 8232, 8233}

\* "\n".join(translations)
RECURSIVE JoinLines(_)
JoinLines(translations) ==
    IF translations = <<>> THEN <<>>
    ELSE IF Len(translations) = 1 THEN translations[1]
    ELSE translations[1] \o <<10>> \o JoinLines(Tail(translations))

\* str.splitlines from character i on, line being the characters of the
\* line begun: a CR LF pair is one break, and the text after the last break
\* is a line only if it is not empty
RECURSIVE SplitLinesFrom(_, _, _)
SplitLinesFrom(text, i, line) ==
    IF i > Len(text) THEN (IF line = <<>> THEN <<>> ELSE <<line>>)
    ELSE IF text[i] = 13 /\ i < Len(text) /\ text[i + 1] = 10
    THEN <<line>> \o SplitLinesFrom(text, i + 2, <<>>)
    ELSE IF text[i] \in LineBreaks
    THEN <<line>> \o SplitLinesFrom(text, i + 1, <<>>)
    ELSE SplitLinesFrom(text, i + 1, Append(line, text[i]))

SplitLines(text) == SplitLinesFrom(text, 1, <<>>)

\* the position of a field name among the field names, 0 if it is not one
FieldIndex(fieldnames, name) ==
    IF \E i \in 1..Len(fieldnames) : fieldnames[i] = name
    THEN CHOOSE i \in 1..Len(fieldnames) : fieldnames[i] = name
    ELSE 0

\* [row["Translation"] for row in reader]
TranslationsOf(file) ==
    [i \in 1..Len(file.rows) |-> file.rows[i][FieldIndex(file.header, "Translation")]]

NoTranslationHeader == "Exit(1): CSV file does not contain 'Translation' header."

CountMismatch ==
    "Exit(1): The number of translations does not match the number of rows in the CSV file."

\* extract: [txt, err], txt the text file written, unless the header is missing
ExtractTranslations(file) ==
    IF FieldIndex(file.header, "Translation") = 0
    THEN [txt |-> <<>>, err |-> NoTranslationHeader]
    ELSE [txt |-> JoinLines(TranslationsOf(file)), err |-> "none"]

\* insert: [csv, err], csv the CSV file after the command
InsertTranslations(file, text) ==
    IF FieldIndex(file.header, "Translation") = 0
    THEN [csv |-> file, err |-> NoTranslationHeader]
    ELSE IF Len(file.rows) # Len(SplitLines(text))
    THEN [csv |-> file, err |-> CountMismatch]
    ELSE [csv |-> [file EXCEPT !.rows =
                      [i \in 1..Len(file.rows) |->
                          [file.rows[i] EXCEPT ![FieldIndex(file.header, "Translation")] =
                              SplitLines(text)[i]]]],
          err |-> "none"]

MaxTrRows == 3

\* Translation cells: empty, one character, two lines
TrTexts == {<<>>, <<97>>, <<98>>, <<97, 10, 98>>}

TrHeaders == {<<"Original", "Translation">>, <<"Translation", "Original">>,
              <<"Original", "Text">>}

RECURSIVE TrRows(_)
TrRows(n) ==
    IF n = 0 THEN {<<>>}
    ELSE TrRows(n - 1) \cup {Append(r, t) : r \in TrRows(n - 1), t \in TrTexts}

\* the CSV files: every header over every list of up to MaxTrRows cells
TrCsvs ==
    {[header |-> h,
      rows |-> [i \in 1..Len(ts) |->
                   IF h[1] = "Translation" THEN <<ts[i], <<111>>>> ELSE <<<<111>>, ts[i]>>]] :
        h \in TrHeaders, ts \in TrRows(MaxTrRows)}

\* the text files a user may leave in place of the extracted one
TrEdits == {<<>>, <<97>>, <<97, 10>>, <<10>>, <<97, 10, 98>>, <<97, 10, 10, 98, 10>>}

InitTr ==
    /\ pc = "tr_start"
    /\ FileIdle
    /\ V7Idle
    /\ CsvIdle
    /\ NlIdle
    /\ DtIdle
    /\ \E f \in TrCsvs :
          tr = [csv |-> f, txt |-> <<>>, err |-> "none", was |-> f, edited |-> FALSE]

\* the extract command
ExtractTr ==
    /\ pc = "tr_start"
    /\ \E x \in {ExtractTranslations(tr.csv)} :
          /\ tr' = [tr EXCEPT !.txt = x.txt, !.err = x.err]
          /\ pc' = IF x.err = "none" THEN "tr_extracted" ELSE "tr_exit"
    /\ UNCHANGED <<input, walk, ser, header, compressed, records, err, flag,
                   output, again, v7, edit, disk, csv, nl, dt>>

\* the user replaces the text file
EditTr ==
    /\ pc = "tr_extracted"
    /\ ~tr.edited
    /\ \E t \in TrEdits \ {tr.txt} : tr' = [tr EXCEPT !.txt = t, !.edited = TRUE]
    /\ UNCHANGED <<pc, input, walk, ser, header, compressed, records, err, flag,
                   output, again, v7, edit, disk, csv, nl, dt>>

\* the insert command
InsertTr ==
    /\ pc = "tr_extracted"
    /\ \E x \in {InsertTranslations(tr.csv, tr.txt)} :
          /\ tr' = [tr EXCEPT !.csv = x.csv, !.err = x.err]
          /\ pc' = IF x.err = "none" THEN "tr_inserted" ELSE "tr_failed"
    /\ UNCHANGED <<input, walk, ser, header, compressed, records, err, flag,
                   output, again, v7, edit, disk, csv, nl, dt>>

NextTr == ExtractTr \/ EditTr \/ InsertTr

SpecTr == InitTr /\ [][NextTr]_vars
---------------------------------------------------------------------------
(* Properties.  What a decoded file holds is read from records by the      *)
(* definitions below, which do not use the reader's own operators.         *)

\* the command has ended
Terminal == {"exit", "skipped", "failed", "decoded", "encoded", "encode_failed",
             "redecoded"}

\* the first 16 bytes of bs are not the signature
SignatureDiffers(bs) ==
    Len(bs) < 16 \/ \E i \in 1..16 : bs[i] # UDLG_SIGNATURE[i]

\* the records of a list and of the Values under them, at any depth
RECURSIVE Flatten(_, _)
Flatten(list, i) ==
    IF i > Len(list) THEN <<>>
    ELSE (IF "prim" \in DOMAIN list[i] THEN <<>>
          ELSE <<list[i]>> \o (IF "Values" \in DOMAIN list[i]
                               THEN Flatten(list[i].Values, 1) ELSE <<>>))
         \o Flatten(list, i + 1)

AllRecords == Flatten(records, 1)

KindOf(r) == IF "RecordTypeEnum" \in DOMAIN r THEN r.RecordTypeEnum ELSE "none"

IsArrayRecord(r) ==
    KindOf(r) \in {"ArraySingleObject", "ArraySingleString", "BinaryArray"}

IsClassRecord(r) ==
    KindOf(r) \in {"ClassWithMembersAndTypes", "SystemClassWithMembersAndTypes",
                   "ClassWithId"}

DeclaredLength(r) ==
    IF KindOf(r) = "BinaryArray" THEN r.Lengths[1] ELSE r.ArrayInfo.Length

\* the slot contribution of an element
Contribution(v) == IF "NullCount" \in DOMAIN v THEN v.NullCount ELSE 1

RECURSIVE SlotSum(_)
SlotSum(values) ==
    IF values = <<>> THEN 0 ELSE Contribution(values[1]) + SlotSum(Tail(values))

\* the object ids a record declares: none or one
DeclaredId(r) ==
    IF "ClassInfo" \in DOMAIN r THEN <<r.ClassInfo.ObjectId>>
    ELSE IF "ArrayInfo" \in DOMAIN r THEN <<r.ArrayInfo.ObjectId>>
    ELSE IF "ObjectId" \in DOMAIN r THEN <<r.ObjectId>>
    ELSE <<>>

RECURSIVE DeclaredIds(_)
DeclaredIds(recs) ==
    IF recs = <<>> THEN <<>> ELSE DeclaredId(recs[1]) \o DeclaredIds(Tail(recs))

\* the declared member counts of the class a class record takes its
\* members from
MemberCounts(r, all) ==
    IF "ClassInfo" \in DOMAIN r THEN {r.ClassInfo.MemberCount}
    ELSE {all[i].ClassInfo.MemberCount :
             i \in {j \in 1..Len(all) : /\ "ClassInfo" \in DOMAIN all[j]
                                        /\ all[j].ClassInfo.ObjectId = r.MetadataId}}

\* int.bit_length() of a wide integer
RECURSIVE BitLength(_)
BitLength(k) == IF k = 0 THEN 0 ELSE 1 + BitLength(k \div 2)

WBits(w) == IF w.hi > 0 THEN 16 + BitLength(w.hi) ELSE BitLength(w.lo)

\* the 7-bit group i (from 0) of a 32-bit value
Group(w, i) ==
    CASE i = 0 -> w.lo % 128
      [] i = 1 -> (w.lo \div 128) % 128
      [] i = 2 -> (w.lo \div 16384) + (w.hi % 32) * 4
      [] i = 3 -> (w.hi \div 32) % 128
      [] i = 4 -> w.hi \div 4096

---------------------------------------------------------------------------
(* C1                                                                      *)

\* C1 (amended): the signature gate is in the decode command.  Given a file,
\* the command ends with the signature-mismatch exit if and only if the first
\* 16 bytes differ from the signature; in a directory walk such a file is
\* skipped without an error; either way nothing of it is parsed.
C1_SignatureGate ==
    /\ pc # "start" =>
          /\ (err = SignatureMismatch) <=> (walk = "file" /\ SignatureDiffers(input))
          /\ (pc = "exit") <=> (walk = "file" /\ SignatureDiffers(input))
          /\ (pc = "skipped") <=> (walk = "dir" /\ SignatureDiffers(input))
    /\ SignatureDiffers(input) =>
          /\ records = <<>>
          /\ header = <<>>
          /\ ser = NewSerializer(<<>>)

C1_Witness ==
    /\ pc = "exit"
    /\ err = SignatureMismatch
    /\ Len(input) > 16
    /\ SubSeq(input, 1, 15) = SubSeq(UDLG_SIGNATURE, 1, 15)

\* C1 as stated: decoding fails with the bad-signature error if and only if
\* the first 16 bytes differ from the signature.
C1_AsStated ==
    pc \in Terminal => ((err = SignatureMismatch) <=> SignatureDiffers(input))

---------------------------------------------------------------------------
(* C2, C3                                                                  *)

\* C2 as stated: encoding the unmodified result of decoding an uncompressed
\* file succeeds and writes the bytes of the file.
C2_AsStated ==
    (/\ pc \in {"encoded", "encode_failed"}
     /\ ~compressed
     /\ flag = "false"
     /\ edit = NoEdit) =>
        (pc = "encoded" /\ output = input)

\* the payload of a frame written by compress_gzip_zlib
FramePayload(frame) == SubSeq(frame, 16, Len(frame) - 8)

\* C3 as stated: encoding succeeds; with the flag true the output is the
\* header and a gzip frame of the payload with 04 00 at frame offsets 8 and 9,
\* otherwise the header and the payload; decoding the output gives the same
\* records and the same flag.
C3_AsStated ==
    edit = NoEdit =>
    /\ pc # "encode_failed"
    /\ pc \in {"encoded", "redecoded"} =>
          /\ SubSeq(output, 1, 24) = header
          /\ IF flag = "true"
             THEN /\ SubSeq(output, 25, 28) = <<31, 139, 8, 0>>
                  /\ SubSeq(output, 33, 34) = <<4, 0>>
                  /\ FramePayload(SubSeq(output, 25, Len(output)))
                         = EncodePayload(records).out
             ELSE SubSeq(output, 25, Len(output)) = EncodePayload(records).out
    /\ pc = "redecoded" =>
          /\ again.err = "none"
          /\ again.records = records
          /\ again.compressed = (flag = "true")

---------------------------------------------------------------------------
(* C4, C5: under Spec7                                                     *)

\* C4: for every n in [0, 2^32), reading the bytes written for n gives n and
\* consumes exactly the bytes written.
C4_VarintRoundTrip ==
    pc = "v_read" =>
        /\ v7.err = "none"
        /\ v7.result = v7.value
        /\ v7.used = Len(v7.bytes)

C4_Witness ==
    /\ pc = "v_read"
    /\ v7.value = Wide(65535, 65535)
    /\ Len(v7.bytes) = 5
    /\ v7.result = v7.value

\* the number of bytes of the encoding: one for 0, ceil(bits(n)/7) otherwise
EncodedLength(w) == IF WBits(w) = 0 THEN 1 ELSE (WBits(w) + 6) \div 7

\* C5 (amended): the encoding of n has max(1, ceil(bits(n)/7)) bytes, holds
\* the 7-bit groups of n from least to most significant, has the high bit set
\* on every byte but the last; 0 is 00, 127 is 7F, 128 is 80 01, 300 is AC 02.
C5_VarintShape ==
    pc \in {"v_written", "v_read"} =>
        /\ Len(v7.bytes) = EncodedLength(v7.value)
        /\ \A i \in 1..Len(v7.bytes) :
              /\ v7.bytes[i] % 128 = Group(v7.value, i - 1)
              /\ (v7.bytes[i] >= 128) <=> (i < Len(v7.bytes))
        /\ v7.value = Wide(0, 0) => v7.bytes = <<0>>
        /\ v7.value = Wide(0, 127) => v7.bytes = <<127>>
        /\ v7.value = Wide(0, 128) => v7.bytes = <<128, 1>>
        /\ v7.value = Wide(0, 300) => v7.bytes = <<172, 2>>

C5_Witness ==
    /\ pc = "v_written"
    /\ v7.value = Wide(0, 300)
    /\ v7.bytes = <<172, 2>>

\* C5 as stated: the encoding of n has ceil(bits(n)/7) bytes.
C5_AsStated ==
    pc \in {"v_written", "v_read"} =>
        Len(v7.bytes) = (WBits(v7.value) + 6) \div 7

---------------------------------------------------------------------------
(* C6, C7, C8                                                              *)

\* C6 as stated: in a decoded file the slot contributions of the Values of
\* every array record sum to its declared length.
C6_AsStated ==
    pc = "decoded" =>
        \A i \in 1..Len(AllRecords) :
            IsArrayRecord(AllRecords[i]) =>
                SlotSum(AllRecords[i].Values) = DeclaredLength(AllRecords[i])

Overrun == "ValueError: Too many records in array."

\* the element records that follow an array head: up to MaxElems of Elems
ElementLists == UNION {[1..n -> Elems] : n \in 0..MaxElems}

RECURSIVE Cat(_)
Cat(es) == IF es = <<>> THEN <<>> ELSE es[1] \o Cat(Tail(es))

FragSlots(e) == IF e = FragNulls2 THEN 2 ELSE 1

\* Where the slot cursor of an array of the given length stops on the
\* records es: [at |-> k, over |-> b], after k records, past the length or
\* not; at is 0 when the records end first.
RECURSIVE Cursor(_, _, _, _)
Cursor(es, k, i, length) ==
    IF i >= length THEN [at |-> k, over |-> i > length]
    ELSE IF k >= Len(es) THEN [at |-> 0, over |-> FALSE]
    ELSE Cursor(es, k + 1, i + FragSlots(es[k + 1]), length)

ArrayHeads == {FragArr2, FragBinArr2}

\* the records after the head of a file that is an array head of length 2,
\* element records and the tail t
FollowingRecords(es, t) == IF t = <<>> THEN es ELSE Append(es, t)

\* the file is the head h, the records es and the tail t
IsArrayFile(h, es, t) == input = GoodHeader \o h \o Cat(es) \o t

StopsOver(es, t) == Cursor(FollowingRecords(es, t), 0, 0, 2).over

StopsAt(es, t) == Cursor(FollowingRecords(es, t), 0, 0, 2).at

\* C8 (amended): decoding an array fails with the overrun error, and gives no
\* array record, exactly when an element record carries the slot cursor
\* past the declared length (length 2 with elements obj, null run of 2); when
\* the cursor lands on the length the array is decoded with the elements read
\* so far, and the records after them are not elements of it.
C8_Overrun ==
    pc \in Terminal =>
        \A h \in ArrayHeads, es \in ElementLists, t \in Tails :
            IsArrayFile(h, es, t) =>
                /\ StopsOver(es, t) <=> (pc = "failed" /\ err = Overrun)
                /\ StopsOver(es, t) => records = <<>>
                /\ (~StopsOver(es, t) /\ StopsAt(es, t) > 0) =>
                       /\ Len(records) >= 1
                       /\ IsArrayRecord(records[1])
                       /\ Len(records[1].Values) = StopsAt(es, t)
                       /\ SlotSum(records[1].Values) = 2

C8_Witness ==
    /\ pc = "failed"
    /\ err = Overrun
    /\ input = GoodHeader \o FragArr2 \o FragNull \o FragNulls2

RECURSIVE FragSlotSum(_)
FragSlotSum(es) ==
    IF es = <<>> THEN 0 ELSE FragSlots(es[1]) + FragSlotSum(Tail(es))

\* C8 as stated: an array whose element records' contributions pass the
\* declared length fails with the overrun error.
C8_AsStated ==
    pc \in Terminal =>
        \A h \in ArrayHeads, es \in ElementLists, t \in Tails :
            (IsArrayFile(h, es, t) /\ FragSlotSum(es) > 2) =>
                (pc = "failed" /\ err = Overrun)

---------------------------------------------------------------------------
(* C9, C10                                                                 *)

\* C9 as stated: in a decoded file every MemberReference's IdRef is the
\* object id declared by some record of the file.
C9_AsStated ==
    pc = "decoded" =>
        \A i \in 1..Len(AllRecords) :
            KindOf(AllRecords[i]) = "MemberReference" =>
                \E j \in 1..Len(DeclaredIds(AllRecords)) :
                    DeclaredIds(AllRecords)[j] = AllRecords[i].IdRef

\* C10 as stated: in a decoded file no two records declare the same object id.
C10_AsStated ==
    pc = "decoded" =>
        \A i, j \in 1..Len(DeclaredIds(AllRecords)) :
            i # j => DeclaredIds(AllRecords)[i] # DeclaredIds(AllRecords)[j]

---------------------------------------------------------------------------
(* C11                                                                     *)

\* the string the edit replaced, as it was decoded
EditedString == Preorder(records)[edit.at]

\* C11 as stated: after the Value of one BinaryObjectString of a decoded file
\* is replaced by another string, encoding succeeds and decoding the output
\* gives the original tree except for that Value.
C11_AsStated ==
    edit.kind = "string" =>
        /\ pc # "encode_failed"
        /\ pc = "redecoded" =>
              /\ again.err = "none"
              /\ Size(again.records) = Size(records)
              /\ Preorder(again.records)[edit.at].Value = edit.text
              /\ Edited(again.records, [edit EXCEPT !.text = EditedString.Value])
                     = records

---------------------------------------------------------------------------
(* C12                                                                     *)

\* the last record of a list is a MessageEnd and no earlier one is
EndsAtFirstEnd(recs) ==
    /\ Len(recs) >= 1
    /\ KindOf(recs[Len(recs)]) = "MessageEnd"
    /\ \A i \in 1..(Len(recs) - 1) : KindOf(recs[i]) # "MessageEnd"

Returned == {"decoded", "encoded", "encode_failed", "redecoded"}

\* C12: when UDLG.parse has returned, the last top-level record is a
\* MessageEnd, no earlier top-level record is, and the last byte read is the
\* tag of that MessageEnd; while the loop runs no top-level record is a
\* MessageEnd.
C12_StopsAtMessageEnd ==
    /\ pc \in Returned =>
          /\ EndsAtFirstEnd(records)
          /\ ser.pos >= 1
          /\ ser.stream[ser.pos] = 11
    /\ pc = "loop" => \A i \in 1..Len(records) : KindOf(records[i]) # "MessageEnd"
    /\ (pc = "redecoded" /\ again.err = "none") => EndsAtFirstEnd(again.records)

\* a MessageEnd among the elements of an array, and bytes after the end
C12_Witness ==
    /\ pc = "decoded"
    /\ input = GoodHeader \o FragArr2 \o FragEnd \o FragNull \o FragEnd \o FragNull
    /\ Len(records) = 2
    /\ KindOf(records[1].Values[1]) = "MessageEnd"
    /\ ser.pos = Len(input) - 1

---------------------------------------------------------------------------
(* C13                                                                     *)

\* the file with the 8 bytes after its signature replaced by o
WithOpaque(bs, o) == SubSeq(bs, 1, 16) \o o \o SubSeq(bs, 25, Len(bs))

\* C13: the header kept by decode is the first 24 bytes of the file, the
\* stream written by encode starts with the same 24 bytes whatever the
\* records, the edit and the Compressed entry, and the outcome of decoding
\* does not depend on the 8 bytes after the signature.
C13_OpaqueHeader ==
    /\ pc \in {"loop"} \cup Returned => header = SubSeq(input, 1, 24)
    /\ pc \in {"encoded", "encode_failed", "redecoded"} =>
          /\ Len(output) >= 24
          /\ SubSeq(output, 1, 24) = SubSeq(input, 1, 24)
    /\ (pc \in {"decoded", "failed"} /\ Len(input) >= 24) =>
          \A o \in Opaque :
              Parse(WithOpaque(input, o)).err = err
              /\ (pc = "decoded" =>
                     /\ Parse(WithOpaque(input, o)).records = records
                     /\ Parse(WithOpaque(input, o)).compressed = compressed)

\* opaque bytes that begin with the gzip magic, written back in a compressed
\* file
C13_Witness ==
    /\ pc = "encoded"
    /\ flag = "true"
    /\ SubSeq(input, 17, 24) = <<31, 139, 8, 0, 249, 83, 11, 10>>
    /\ SubSeq(output, 1, 24) = SubSeq(input, 1, 24)
    /\ Len(output) > 24

---------------------------------------------------------------------------
(* C14                                                                     *)

\* the bytes at file offsets 24 and 25 are 1F 8B
HasMagic(bs) == Len(bs) >= 26 /\ bs[25] = 31 /\ bs[26] = 139

HeaderRead == {"loop", "failed"} \cup Returned

\* C14: once the header is read, decode has Compressed true if and only if
\* the bytes at offsets 24-25 are 1F 8B (a frame that does not decompress
\* ends the decode with an IOError instead); the records are then read from
\* the start of the decompressed remainder, and otherwise from offset 24 of
\* the file itself.
C14_CompressionSniff ==
    /\ pc \in {"loop"} \cup Returned => (compressed <=> HasMagic(input))
    /\ (pc \in HeaderRead /\ HasMagic(input) /\ ~compressed) =>
          (pc = "failed" /\ err = "IOError: Error decompressing gzip payload")
    /\ (pc \in HeaderRead /\ compressed) =>
          /\ Len(input) >= 39 + Len(ser.stream)
          /\ ser.stream = SubSeq(input, 40, 39 + Len(ser.stream))
          /\ Len(ser.stream) = input[36] + 256 * input[37]
    /\ (pc \in HeaderRead /\ ~compressed /\ Len(input) >= 24) =>
          ser.stream = input
    /\ (pc = "loop" /\ records = <<>>) =>
          ser.pos = (IF compressed THEN 0 ELSE 24)

\* a frame with the XFL and OS bytes of zlib, decoded to the end
C14_Witness ==
    /\ pc = "decoded"
    /\ compressed
    /\ HasMagic(input)
    /\ SubSeq(input, 33, 34) = <<0, 3>>
    /\ Len(records) = 2

---------------------------------------------------------------------------
(* C15                                                                     *)

\* the file is a BinaryArray of the given kind and rank, two nulls and
\* MessageEnd
IsShapeFile(kind, rank) ==
    input = GoodHeader \o FragBinArr(kind, rank) \o FragNull \o FragNull \o FragEnd

\* the errors of handle_binary_array on an array shape: the one it raises
\* itself and the one of lengths[0] on an array without lengths
ShapeErrors == {"NotImplementedError: BinaryArray", "IndexError: lengths[0]"}

\* C15 as stated: a BinaryArray is decoded only when its kind is Single and
\* its rank is 1; with every other kind or rank decoding fails with the
\* array-shape error and gives no record.
C15_AsStated ==
    pc \in Terminal =>
        \A kind \in 0..5, rank \in Ranks :
            IsShapeFile(kind, rank) =>
                IF kind = 0 /\ rank = 1
                THEN pc # "failed" /\ KindOf(records[1]) = "BinaryArray"
                ELSE pc = "failed" /\ err \in ShapeErrors /\ records = <<>>

---------------------------------------------------------------------------
(* C16                                                                     *)

TypedClassKinds == {"ClassWithMembersAndTypes", "SystemClassWithMembersAndTypes"}

\* a record of a kind that carries ClassInfo and MemberTypeInfo declares id
DeclaredWithTypes(recs, id) ==
    \E k \in 1..Size(recs) :
        /\ KindOf(Preorder(recs)[k]) \in TypedClassKinds
        /\ Preorder(recs)[k].ClassInfo.ObjectId = id

\* C16 as stated: every ClassWithId record that decoding has produced names,
\* by its MetadataId, a ClassWithMembersAndTypes or
\* SystemClassWithMembersAndTypes record; with any other MetadataId the
\* decode fails and there is no ClassWithId record.
C16_AsStated ==
    pc \in Terminal =>
        \A k \in 1..Size(records) :
            KindOf(Preorder(records)[k]) = "ClassWithId" =>
                DeclaredWithTypes(records, Preorder(records)[k].MetadataId)

---------------------------------------------------------------------------
(* C17                                                                     *)

\* the errors of a record tag without a handler: the ValueError of
\* process_record for MethodCall and MethodReturn, the ValueError of
\* RecordType(byte) for a byte that is no member of the enum
UnsupportedRecord ==
    {"ValueError: Unsupported record type", "ValueError: not a valid enum value"}

SupportedTags == 0..17

\* the loop of UDLG.parse is about to read a tag outside 0..17
AtBadTag ==
    /\ pc = "loop"
    /\ ser.pos < Len(ser.stream)
    /\ ser.stream[ser.pos + 1] \notin SupportedTags

\* the file has tag t where an element of an array or a member value of a
\* class is read
IsNestedTagFile(prefix, t) == input = GoodHeader \o prefix \o <<t>> \o FragEnd

\* the first record of the decoded list was given a reserved kind
KindEditedFirst == edit.kind = "kind" /\ edit.at = 1

\* what holds of a state for the nested tags and for encoding
UnsupportedNested ==
    /\ \A t \in BadTags, prefix \in {FragArr2 \o FragNull, FragCls1} :
          (pc \in Terminal /\ IsNestedTagFile(prefix, t)) =>
              /\ pc = "failed"
              /\ err \in UnsupportedRecord
              /\ (t \in {21, 22}) = (err = "ValueError: Unsupported record type")
              /\ ser.pos = Len(GoodHeader \o prefix) + 1
              /\ \A i \in 1..Len(records) : KindOf(records[i]) = "none"
    /\ (pc \in {"encoded", "encode_failed", "redecoded"} /\ edit.kind = "kind") =>
          pc = "encode_failed"
    /\ (pc = "encode_failed" /\ KindEditedFirst) =>
          err = "ValueError: Unsupported record type"

\* C17: a record tag outside 0..17 read by the loop of UDLG.parse ends the
\* parse with an unsupported-record error, with the tag the only byte read
\* and the record list as it was; the same tag read for an element or a
\* member value fails at the tag with no record completed; and encoding a
\* tree with a record of a reserved kind fails.
C17_UnsupportedRecord ==
    [][/\ AtBadTag =>
            /\ pc' = "failed"
            /\ err' \in UnsupportedRecord
            /\ ser'.pos = ser.pos + 1
            /\ records' = records
       /\ UnsupportedNested']_vars

\* a reserved tag has stopped the parse loop, or a reserved kind the encoder
C17_Witness ==
    \/ /\ pc = "failed"
       /\ input = GoodHeader \o FragNull \o <<22>> \o FragEnd
       /\ ser.pos = 26
       /\ records = <<[RecordTypeEnum |-> "ObjectNull"]>>
    \/ /\ pc = "encode_failed"
       /\ edit.kind = "kind"
       /\ edit.name = "MethodCall"

---------------------------------------------------------------------------
(* C18                                                                     *)

Failures == {"failed", "encode_failed"}

\* the output files in each phase of process_file
OutputAfterCompletion ==
    /\ pc \in {"loop", "failed"} => disk.json = disk.prior /\ disk.udlg = disk.prior
    /\ pc = "decoded" => disk.json = "written" /\ disk.udlg = disk.prior
    /\ pc = "encode_failed" => disk.json = "written" /\ disk.udlg = disk.prior
    /\ pc \in {"encoded", "redecoded"} => disk.json = "written" /\ disk.udlg = "written"
    /\ pc \in Failures => err # "none"

\* C18: when decoding or encoding fails, the error ends the operation (no
\* step follows it) and the output file, JSON or UDLG, is as it was before:
\* absent if it was absent, unmodified if it existed; the output is written
\* only once the whole decode or encode has completed.
C18_FailureLeavesOutput ==
    [][pc \notin Failures /\ OutputAfterCompletion']_vars

\* a decode that failed after some records, over an output left by an
\* earlier run; an encode that failed likewise
C18_Witness ==
    /\ disk.prior = "old"
    /\ \/ pc = "failed" /\ Len(records) > 0 /\ disk.json = "old"
       \/ pc = "encode_failed" /\ disk.udlg = "old"

---------------------------------------------------------------------------
(* C19                                                                     *)

\* the columns of a CSV row in each layout: the file column or 0, the key
\* column, the Translation column
FileColumn == IF csv.include_file_path THEN 1 ELSE 0

KeyColumn == FileColumn + 1

TranslationColumn ==
    IF csv.mode = "variables" THEN FileColumn + 3 ELSE FileColumn + 2

\* the key under which the text at data[i].Values[j] is looked up: in
\* English mode its own Value, in variables mode the Value of the entry
\* before it; <<>> if there is none
TextKeys(i, j) ==
    IF csv.mode = "english" THEN {csv.data[i].Values[j].Value}
    ELSE IF j >= 2 /\ IsString(csv.data[i].Values[j - 1])
    THEN {csv.data[i].Values[j - 1].Value}
    ELSE {}

\* row is a row of the CSV for the text at data[i].Values[j]: a row of this
\* file, if there is a file column, whose key column names the text (in
\* English mode the Original with its newlines escaped, in variables mode the
\* variable, alone or followed by | and the name of the file when there is no
\* file column)
RowMatches(row, i, j) ==
    /\ Len(row) >= TranslationColumn
    /\ csv.include_file_path => row[1] = Relative
    /\ \E k \in TextKeys(i, j) :
          IF csv.mode = "english" THEN Unescape(row[KeyColumn]) = k
          ELSE \/ row[KeyColumn] = k
               \/ ~csv.include_file_path
                  /\ row[KeyColumn] = k \o <<124>> \o PathName(Relative)

\* every row of the CSV for the text has an empty Translation; so when no
\* row is for the text
OnlyEmptyTranslations(i, j) ==
    \A r \in 1..Len(csv.rows) :
        RowMatches(csv.rows[r], i, j) => csv.rows[r][TranslationColumn] = <<>>

\* C19: in both modes, with and without the file column, a text whose CSV
\* rows have an empty Translation, and a text without a CSV row, has the
\* Value after replace_texts_from_csv that it had before.
C19_EmptyKeepsOriginal ==
    pc = "csv_done" =>
        /\ Len(csv.result) = Len(csv.data)
        /\ \A i \in 1..Len(csv.data) :
              Has(csv.data[i], "Values") =>
                  /\ Len(csv.result[i].Values) = Len(csv.data[i].Values)
                  /\ \A j \in 1..Len(csv.data[i].Values) :
                        (IsString(csv.data[i].Values[j]) /\ OnlyEmptyTranslations(i, j))
                            => csv.result[i].Values[j] = csv.data[i].Values[j]

\* a replacement done with a CSV whose only row is the row of a text and
\* has an empty Translation, the key of that row being in the translations
C19_Witness ==
    /\ pc = "csv_done"
    /\ Len(csv.rows) = 1
    /\ \E i \in 1..Len(csv.data) :
          /\ Has(csv.data[i], "Values")
          /\ \E j \in 1..Len(csv.data[i].Values) :
                /\ IsString(csv.data[i].Values[j])
                /\ RowMatches(csv.rows[1], i, j)
                /\ csv.rows[1][TranslationColumn] = <<>>
                /\ RowEntry(csv.rows[1], csv.mode, csv.include_file_path) # <<>>
                /\ csv.result[i].Values[j] = csv.data[i].Values[j]

---------------------------------------------------------------------------
(* C20                                                                     *)

\* row r of the CSV is a complete row, with an Original and a Translation,
\* whose first column is key
IsKeyRow(r, key) ==
    /\ Len(csv.rows[r]) >= 3
    /\ csv.rows[r][1] = key
    /\ csv.rows[r][2] # <<>>
    /\ csv.rows[r][3] # <<>>

\* data[i].Values[j] is the text of a (variable, text) pair of variable v
IsTextOf(i, j, v) ==
    /\ Has(csv.data[i], "Values")
    /\ Len(csv.data[i].Values) >= 3
    /\ ~IsDict(csv.data[i].Values[1])
    /\ j \in 3..Len(csv.data[i].Values)
    /\ j % 2 = 1
    /\ IsString(csv.data[i].Values[j - 1])
    /\ csv.data[i].Values[j - 1].Value = v
    /\ IsString(csv.data[i].Values[j])

\* C20 as stated: in variables mode without a file column, when the CSV has
\* a plain-key row v and a composite-key row v|<file name> for a variable v,
\* the text of v gets the translation of the plain-key row, whatever the
\* order of the two rows.
C20_AsStated ==
    (pc = "csv_done" /\ csv.mode = "variables" /\ ~csv.include_file_path
        /\ Len(csv.rows) = 2) =>
        \A plain \in {1, 2}, i \in 1..Len(csv.data) :
            \A j \in 1..(IF Has(csv.data[i], "Values") THEN Len(csv.data[i].Values) ELSE 0) :
                (/\ IsKeyRow(plain, <<118>>)
                 /\ IsKeyRow(3 - plain, <<118, 124>> \o PathName(Relative))
                 /\ IsTextOf(i, j, <<118>>))
                    => csv.result[i].Values[j].Value
                           = Unescape(csv.rows[plain][3])

---------------------------------------------------------------------------
(* C21                                                                     *)

\* C21 as stated: un-escaping the escaped form of a text gives the text
\* back, with CR LF line ends, with bare LF line ends and with a literal
\* backslash-n in the text.
C21_AsStated == pc = "nl_done" => nl.back = nl.text


---------------------------------------------------------------------------
(* C22                                                                     *)

IsEnglishString(x) == IsString(x) /\ x.Value = English

\* id is the ObjectId of an "English" string of the data
NamesEnglish(id) ==
    \E a \in 1..Len(csv.data) :
        /\ Has(csv.data[a], "Values")
        /\ \E b \in 1..Len(csv.data[a].Values) :
              /\ IsEnglishString(csv.data[a].Values[b])
              /\ csv.data[a].Values[b].ObjectId = id

\* an "English" marker: the string itself or a reference to it
IsMarker(x) ==
    \/ IsEnglishString(x)
    \/ KindOf(x) = "MemberReference" /\ NamesEnglish(x.IdRef)

\* data[i].Values[j] is a string other than "English" with a marker
\* directly before it
IsMarkedText(i, j) ==
    /\ j >= 2
    /\ IsString(csv.data[i].Values[j])
    /\ csv.data[i].Values[j].Value # English
    /\ IsMarker(csv.data[i].Values[j - 1])

MarkedTexts ==
    UNION {{csv.data[i].Values[j].Value :
               j \in {b \in 1..Len(csv.data[i].Values) : IsMarkedText(i, b)}} :
           i \in {a \in 1..Len(csv.data) : Has(csv.data[a], "Values")}}

\* C22 as stated: in English mode the strings extracted to the CSV are the
\* strings other than "English" whose entry directly before, in the same
\* Values list, is an "English" marker, and replacement changes no other
\* string.
C22_AsStated ==
    csv.mode = "english" =>
        /\ pc = "csv_extracted" =>
              {csv.extracted[k][KeyColumn] : k \in 1..Len(csv.extracted)}
                  = {Escape(s) : s \in MarkedTexts}
        /\ pc = "csv_done" =>
              \A i \in 1..Len(csv.data) :
                  Has(csv.data[i], "Values") =>
                      \A j \in 1..Len(csv.data[i].Values) :
                          csv.result[i].Values[j] # csv.data[i].Values[j]
                              => IsMarkedText(i, j)

---------------------------------------------------------------------------
(* C23                                                                     *)

\* d, a ClassWithId, has one value per member of class c, a primitive where
\* the member is of kind Primitive and a record elsewhere
HasLayoutOf(d, c) ==
    /\ Has(d, "Values")
    /\ Len(d.Values) = c.ClassInfo.MemberCount
    /\ \A m \in 1..Len(d.Values) :
          (c.MemberTypeInfo.BinaryTypeEnums[m] = "Primitive") = ~IsDict(d.Values[m])

\* every ClassWithId under the member values of a class with types that
\* names that class has its layout
NestedResolve(recs) ==
    \A k \in 1..Size(recs) :
        (KindOf(Preorder(recs)[k]) \in TypedClassKinds /\ Has(Preorder(recs)[k], "Values")) =>
            \A n \in 1..Size(Preorder(recs)[k].Values) :
                (/\ KindOf(Preorder(Preorder(recs)[k].Values)[n]) = "ClassWithId"
                 /\ Preorder(Preorder(recs)[k].Values)[n].MetadataId
                        = Preorder(recs)[k].ClassInfo.ObjectId)
                    => HasLayoutOf(Preorder(Preorder(recs)[k].Values)[n], Preorder(recs)[k])

\* C23: a ClassWithId among the member values, at any depth, of the class
\* with types that its MetadataId names is decoded, while that class is
\* still being read, with the member layout of that class: the files with
\* such a ClassWithId decode, and every such ClassWithId has one value per
\* member of the class, of that member's kind.
C23_InFlightClassResolves ==
    /\ (pc \in Terminal /\ input \in {GoodHeader \o p : p \in NestPayloads}) =>
          pc # "failed"
    /\ pc \in Returned => NestedResolve(records)

\* the class D{a: Object, b: Byte} whose member a is a ClassWithId naming D
C23_Witness ==
    /\ pc = "decoded"
    /\ input = GoodHeader \o FragCls42 \o FragClsId6 \o FragNull \o <<8>> \o <<9>> \o FragEnd
    /\ records[1].Values[1].RecordTypeEnum = "ClassWithId"
    /\ records[1].Values[1].Values = <<[RecordTypeEnum |-> "ObjectNull"], [prim |-> 8]>>
    /\ records[1].Values[2] = [prim |-> 9]

---------------------------------------------------------------------------
(* C24                                                                     *)

\* no element of the list, and no record under one, is a placeholder, and
\* each has its RecordTypeEnum
NoPlaceholder(recs) ==
    /\ \A i \in 1..Len(recs) :
          ~Has(recs[i], "__temp_record") /\ Has(recs[i], "RecordTypeEnum")
    /\ \A k \in 1..Size(recs) :
          ~Has(Preorder(recs)[k], "__temp_record")
          /\ Has(Preorder(recs)[k], "RecordTypeEnum")

\* C24: after each iteration of the parse loop that returned a record, and
\* in the Records returned by UDLG.parse, no element of the record list is a
\* placeholder and every element has a RecordTypeEnum, however deep the
\* class records were nested.
C24_NoPlaceholderLeft ==
    /\ pc \in {"loop"} \cup Returned => NoPlaceholder(records)
    /\ (pc = "redecoded" /\ again.err = "none") => NoPlaceholder(again.records)

\* a class nested in a class nested in a class has been appended, and the
\* serializer's own list still had the placeholders of the two
C24_Witness ==
    /\ pc \in {"loop", "decoded"}
    /\ input = GoodHeader \o FragCls1 \o FragCls4 \o FragClsId6 \o FragNull \o FragEnd
    /\ Len(records) >= 1
    /\ KindOf(records[1]) = "ClassWithMembersAndTypes"
    /\ KindOf(records[1].Values[1]) = "ClassWithMembersAndTypes"
    /\ Len(SelectSeq(ser.records, LAMBDA r : Has(r, "__temp_record"))) = 2

---------------------------------------------------------------------------
(* C25                                                                     *)

\* C25 as stated: encoding the decoded data of a file whose first record is
\* an ArraySinglePrimitive succeeds, and decoding the bytes written gives the
\* same records.
C25_AsStated ==
    (/\ pc \in {"encoded", "encode_failed", "redecoded"}
     /\ edit = NoEdit
     /\ KindOf(records[1]) = "ArraySinglePrimitive") =>
        /\ pc # "encode_failed"
        /\ pc = "redecoded" => again.err = "none" /\ again.records = records

---------------------------------------------------------------------------
(* C26                                                                     *)

\* bit k of the low byte of the value
LowBit(k) == (dt.bytes[1] \div Pow2(k)) % 2 = 1

\* C26 as stated: the kind read is Utc when bit 0 is set, Local when only
\* bit 1 is set and unspecified when neither is; the ticks are the value with
\* its low two bits cleared; and writing the value read gives the 8 bytes
\* back.
C26_AsStated ==
    /\ pc \in {"dt_read", "dt_written"} =>
          /\ dt.err = "none"
          /\ dt.value.Kind = (IF LowBit(0) THEN "UTC"
                              ELSE IF LowBit(1) THEN "Local" ELSE "None")
          /\ dt.value.ticks.bits
                = [dt.bytes EXCEPT ![1] = 4 * (dt.bytes[1] \div 4)]
    /\ pc = "dt_written" => dt.written = dt.bytes


---------------------------------------------------------------------------
(* C27                                                                     *)

\* the records that declare an object id: strings, classes and arrays
Declaring(recs) ==
    {k \in 1..Len(recs) :
        /\ KindOf(recs[k]) = "BinaryObjectString" \/ IsClassRecord(recs[k])
              \/ IsArrayRecord(recs[k])
        /\ DeclaredId(recs[k]) # <<>>}

\* d is a record of the kind of r that declares the id of r
IsRecordOf(d, r) ==
    IsDict(d) /\ KindOf(d) = KindOf(r) /\ DeclaredId(d) = DeclaredId(r)

\* self.objects maps the id of r to the record
InObjects(r) ==
    /\ DeclaredId(r)[1] \in DOMAIN ser.objects
    /\ IsRecordOf(ser.objects[DeclaredId(r)[1]], r)

\* get_element_by_object_id over the final record list gives the record
InLookup(r) ==
    /\ GetElementByObjectId(DeclaredId(r)[1], records) # ParentNone
    /\ IsRecordOf(GetElementByObjectId(DeclaredId(r)[1], records).d, r)

\* C27: after a successful decode, every object id that exactly one string,
\* class or array record of the file declares is mapped to that record by
\* self.objects or by get_element_by_object_id.
C27_AsStated ==
    pc = "decoded" =>
        \A k \in Declaring(AllRecords) :
            (\A j \in Declaring(AllRecords) :
                DeclaredId(AllRecords[j]) = DeclaredId(AllRecords[k]) => j = k)
            => InObjects(AllRecords[k]) \/ InLookup(AllRecords[k])

---------------------------------------------------------------------------
(* C28                                                                     *)

EndOfStream == "EOFError"

\* UDLG.parse on the bytes fails on the end of the stream and returns nothing
ParseFailsAtEnd(bytes) ==
    Parse(bytes) = [records |-> <<>>, compressed |-> FALSE, err |-> EndOfStream]

\* C28: the files of TruncSources decode, up to their last byte, a
\* MessageEnd; for every proper prefix of one, the command never returns a
\* record list and writes no JSON file, UDLG.parse fails with EOFError
\* wherever the command runs it, and a prefix shorter than the signature,
\* which the command rejects or skips before UDLG.parse, fails in UDLG.parse
\* with EOFError on the read of the header.
C28_TruncatedFails ==
    /\ (input \in TruncSources /\ pc \in Terminal) => pc \in Returned
    /\ (input \in TruncSources /\ pc = "decoded") =>
          /\ ser.pos = Len(ser.stream)
          /\ ser.stream[ser.pos] = 11
    /\ input \in TruncFiles =>
          /\ pc \notin Returned
          /\ disk.json = disk.prior
          /\ pc \in Terminal => pc \in {"failed", "exit", "skipped"}
          /\ pc = "failed" => err = EndOfStream
          /\ pc \in {"exit", "skipped"} => Len(input) < 16 /\ ParseFailsAtEnd(input)

\* the file cut in the string of the second element of an array: the null
\* before it was read, nothing is returned
C28_Witness ==
    /\ pc = "failed"
    /\ err = EndOfStream
    /\ input = GoodHeader \o FragArr2 \o FragNull \o <<6, 1, 0, 0, 0, 1>>
    /\ input \in TruncFiles
    /\ ser.pos = 40
    /\ records = <<>>
    /\ disk.json = disk.prior

---------------------------------------------------------------------------
(* C29                                                                     *)

\* an iteration of the loop of UDLG.parse that returned a record
RecordRead == pc = "loop" /\ pc' \in {"loop", "decoded"}

\* C29: every iteration of the record loop that returns a record moves the
\* stream position forward; the records read so far, nested ones included,
\* are never more than the bytes consumed; and UDLG.parse, once started,
\* ends with its result or with an error, for every input, the arrays with
\* null runs of count 0 or of a negative count included.
C29_ParseTerminates ==
    /\ [][RecordRead => ser'.pos > ser.pos]_vars
    /\ [](pc \in {"loop", "decoded"} => Size(records) <= ser.pos)
    /\ (pc = "start") ~> (pc \in {"exit", "skipped", "failed", "decoded"})

\* an array of two slots decoded from a run of -1 nulls and three nulls
C29_Witness ==
    /\ pc = "decoded"
    /\ input = GoodHeader \o FragArr2 \o FragNullsNeg \o FragNull \o FragNull
                   \o FragNull \o FragEnd
    /\ Len(records[1].Values) = 4
    /\ records[1].Values[1].NullCount = -1

---------------------------------------------------------------------------
(* C30                                                                     *)

InsertDone == pc \in {"tr_inserted", "tr_failed"}

\* C30: extract and then insert with the text file as extract wrote it
\* succeeds and leaves the CSV file as it was, and an insert that finds a
\* number of lines other than the number of rows fails and leaves the CSV
\* file as it was.
C30_AsStated ==
    /\ (InsertDone /\ ~tr.edited) => pc = "tr_inserted" /\ tr.csv = tr.was
    /\ (InsertDone /\ Len(SplitLines(tr.txt)) # Len(tr.was.rows)) =>
          pc = "tr_failed" /\ tr.err = CountMismatch /\ tr.csv = tr.was
=============================================================================
